---- MODULE Spec2Model ----
(***************************************************************************)
(* Persistence core of the REST backend: the key-value (DynamoDB) User and *)
(* Product adapters, the request handlers that call them, and the          *)
(* relational branch of the product handlers.                              *)
(*                                                                         *)
(* The table is a set of items, each a record whose domain is the item's   *)
(* attribute names.  A composite key "TAG#value" is the pair               *)
(* <<"TAG", value>>.  Every awaited storage call is one atomic step; the   *)
(* code between two awaits belongs to the step of the call it follows.     *)
(***************************************************************************)
EXTENDS Integers, Sequences, FiniteSets, TLC

\* ---------------------------------------------------------------- bounds
NumReq == 2          \* request slots: requests in flight at the same time
MaxUsers == 2        \* user ids uuidv4 hands out
MaxProducts == 1     \* product ids uuidv4 hands out

MaxListed == 2       \* products in the table that getAllProducts pages through
MaxLimit == 2        \* largest ?limit= a caller of getAllProducts gives

MaxOver == 2         \* requests of one address counted beyond the limit, per window

Reqs == 1..NumReq
Emails == {"a@x.com", "b@x.com"}
Passwords == {"Abcd1234"}
Categories == {"c1", "c2"}

\* JavaScript null / undefined, for attribute values and for objects.
NullV == "null"
Undef == "undefined"
Null == [null |-> "null"]
Falsy(v) == v \in {NullV, Undef, ""}
OrNull(v) == IF Falsy(v) THEN NullV ELSE v

\* Bodies of PUT /api/auth/profile: a new first name, or a new password.
ProfileBodies == {[firstName |-> "Ann", password |-> Undef],
                  [firstName |-> Undef, password |-> "Wxyz5678"]}

\* new Date().toISOString(): the instant of creation, and any later instant.
T0 == "t0"
T1 == "t1"

UserIdOf(n) == "u" \o ToString(n)
ProductIdOf(n) == "p" \o ToString(n)
UserIds == {UserIdOf(n) : n \in 1..MaxUsers}
ProductIds == {ProductIdOf(n) : n \in 1..MaxProducts}

VARIABLES
    dbType,     \* config.database.type, read once per process
    table,      \* the DynamoDB table: a set of items
    rows,       \* the relational Products and Users rows
    req,        \* the requests in flight, one per slot
    nextUid,    \* uuidv4: the next fresh user id
    nextPid,    \* uuidv4: the next fresh product id
    issued,     \* the bearer tokens signed so far
    hist,       \* history, per product id: the user it was created for, and how
                \* many update and delete requests have named it (2: two or more)
    scanOrder,  \* the order in which a Scan meets the partitions of the table
    proc        \* the server process: how far app.js and initializeDatabase have
                \* run, the dynamoDb handle product.model.js bound when loaded, the
                \* rate limiter's requestCounts, and (history) how many requests of
                \* each address it has passed on since the last timer reset

vars == <<dbType, table, rows, req, nextUid, nextPid, issued, hist, scanOrder, proc>>

\* ------------------------------------------------- DocumentClient calls
Attr(rec, k) == IF k \in DOMAIN rec THEN rec[k] ELSE Undef

Without(item, attr) == [k \in DOMAIN item \ {attr} |-> item[k]]

DbGet(tbl, pk, sk) == {it \in tbl : it.pk = pk /\ it.sk = sk}

DbPut(tbl, item) == {it \in tbl : ~(it.pk = item.pk /\ it.sk = item.sk)} \cup {item}

DbDelete(tbl, pk, sk) == {it \in tbl : ~(it.pk = pk /\ it.sk = sk)}

\* UpdateItem with a SET expression: edits the item, or adds it when absent.
DbUpdate(tbl, pk, sk, sets) ==
    LET old == DbGet(tbl, pk, sk)
        base == IF old = {} THEN [pk |-> pk, sk |-> sk] ELSE CHOOSE it \in old : TRUE
    IN  DbPut(tbl, sets @@ base)

UpdatedItem(tbl, pk, sk) == CHOOSE it \in DbGet(tbl, pk, sk) : TRUE

\* Query: pk = :pk AND begins_with(sk, :sk)
DbQuery(tbl, pk, skPrefix) == {it \in tbl : it.pk = pk /\ it.sk[1] = skPrefix}

\* The order of sort keys inside a partition: that of the strings TAG#id.
SortKeyTags == <<"DETAILS", "PRODUCT", "PROFILE", "USER">>
TagRank(tag) == CHOOSE i \in 1..Len(SortKeyTags) : SortKeyTags[i] = tag
IdRank(id) ==
    CHOOSE n \in 0..(MaxUsers + MaxProducts + MaxListed) :
        id \in {UserIdOf(n), ProductIdOf(n)}
SkLess(a, b) ==
    \/ TagRank(a[1]) < TagRank(b[1])
    \/ a[1] = b[1] /\ IdRank(a[2]) < IdRank(b[2])

RECURSIVE SortBySk(_)
SortBySk(items) ==
    IF items = {} THEN <<>>
    ELSE LET first == CHOOSE it \in items : \A o \in items \ {it} : SkLess(it.sk, o.sk)
         IN  <<first>> \o SortBySk(items \ {first})

\* The items of the table as a Scan meets them: partition after partition in
\* the order given, each partition by sort key.
RECURSIVE ScanSeq(_, _)
ScanSeq(tbl, order) ==
    IF order = <<>> THEN <<>>
    ELSE SortBySk({it \in tbl : it.pk = Head(order)}) \o ScanSeq(tbl, Tail(order))

KeyOf(item) == [pk |-> item.pk, sk |-> item.sk]

\* Number of items a Scan has met when it has met the item with this key.
ScanPos(all, key) ==
    IF key = Null THEN 0
    ELSE IF \E i \in 1..Len(all) : KeyOf(all[i]) = key
    THEN CHOOSE i \in 1..Len(all) : KeyOf(all[i]) = key
    ELSE 0

\* A scan that starts at the start key, not after it.
DbScanInclusive(tbl, order, limit, startKey, prefixes) ==
    LET all == ScanSeq(tbl, order)
        pos == ScanPos(all, startKey)
        from == IF pos = 0 THEN 0 ELSE pos - 1
        to == IF from + limit < Len(all) THEN from + limit ELSE Len(all)
        read == SubSeq(all, from + 1, to)
        Keep(it) == it.pk[1] = prefixes.pk /\ it.sk[1] = prefixes.sk
    IN  [Items |-> SelectSeq(read, Keep),
         LastEvaluatedKey |-> IF to = from + limit /\ to > from /\ to > pos
                              THEN KeyOf(all[to]) ELSE Null]

\* Scan with Limit, ExclusiveStartKey and the FilterExpression
\* begins_with(pk, :pk) AND begins_with(sk, :sk): it reads at most Limit items
\* after the start key, returns those of them the filter keeps, and gives
\* LastEvaluatedKey, the key of the last item read, when Limit stopped it.
DbScan(tbl, order, limit, startKey, prefixes) ==
    LET all == ScanSeq(tbl, order)
        from == ScanPos(all, startKey)
        to == IF from + limit < Len(all) THEN from + limit ELSE Len(all)
        read == SubSeq(all, from + 1, to)
        Keep(it) == it.pk[1] = prefixes.pk /\ it.sk[1] = prefixes.sk
    IN  [Items |-> SelectSeq(read, Keep),
         LastEvaluatedKey |-> IF to = from + limit /\ to > from
                              THEN KeyOf(all[to]) ELSE Null]

\* A transaction item: [kind |-> "Put", item, cond] or [kind |-> "Delete", pk, sk].
\* cond = TRUE is ConditionExpression attribute_not_exists(pk): no item with the
\* key of the item being put.
TxCondOk(tbl, op) ==
    op.kind = "Put" /\ op.cond => DbGet(tbl, op.item.pk, op.item.sk) = {}

TxOk(tbl, ops) == \A i \in 1..Len(ops) : TxCondOk(tbl, ops[i])

RECURSIVE TxApply(_, _)
TxApply(tbl, ops) ==
    IF ops = <<>> THEN tbl
    ELSE LET op == Head(ops)
             t2 == IF op.kind = "Put" THEN DbPut(tbl, op.item)
                   ELSE DbDelete(tbl, op.pk, op.sk)
         IN  TxApply(t2, Tail(ops))

\* transactWrite: all items or none.
DbTransactWrite(tbl, ops) == IF TxOk(tbl, ops) THEN TxApply(tbl, ops) ELSE tbl

\* --------------------------------------------------------------- bcrypt
Hash(pw) == "bcrypt:" \o pw
Compare(pw, hashed) == hashed = Hash(pw)

\* ------------------------------------------------------- request slots
Idle == [op |-> "idle", pc |-> "idle", user |-> Null, arg |-> Null, loc |-> Null,
         status |-> 0, body |-> Null,
         \* history: the table writes this request has made; for a registration,
         \* whether another registration was in flight with it, and whether a
         \* user with its email existed when it arrived
         writes |-> 0, overlap |-> FALSE, taken |-> FALSE]

InFlight(q) == q.pc \notin {"idle", "done"}

\* res.status(s).json(body)
Respond(q, s, b) == [q EXCEPT !.pc = "done", !.status = s, !.body = b]

\* A request arrives in slot r.
Arrive(r, q) == [req EXCEPT ![r] = q]

\* A registration arrives in slot r; registrations in flight overlap with it.
ArriveRegister(r, q) ==
    LET Busy(o) == InFlight(req[o]) /\ req[o].op = "register"
    IN  [o \in Reqs |->
            IF o = r THEN [q EXCEPT !.overlap = \E b \in Reqs \ {r} : Busy(b)]
            ELSE IF Busy(o) THEN [req[o] EXCEPT !.overlap = TRUE]
            ELSE req[o]]

Set(r, q) == req' = [req EXCEPT ![r] = q]

EmptyRec == [k \in {} |-> NullV]
Only(k, v) == [x \in {k} |-> v]

\* ------------------------------------------- UserModel (key-value adapter)
UserItem(userId, userData) ==
    [pk |-> <<"USER", userId>>, sk |-> <<"PROFILE", userId>>, id |-> userId,
     email |-> userData.email, password |-> Hash(userData.password),
     firstName |-> OrNull(userData.firstName), lastName |-> OrNull(userData.lastName),
     profileImage |-> NullV, role |-> "user", isActive |-> TRUE,
     createdAt |-> T0, updatedAt |-> T0]

EmailIndexItem(userId, email) ==
    [pk |-> <<"EMAIL", email>>, sk |-> <<"USER", userId>>, id |-> userId]

\* Both puts carry attribute_not_exists(pk), evaluated on the item that has the
\* key of the item being put: (USER#id, PROFILE#id) and (EMAIL#email, USER#id).
UserCreateTx(userId, userData) ==
    << [kind |-> "Put", item |-> UserItem(userId, userData), cond |-> TRUE],
       [kind |-> "Put", item |-> EmailIndexItem(userId, userData.email), cond |-> TRUE] >>

\* findById handing the stored item to its caller as it is.
UserFindByIdWithPassword(tbl, userId) ==
    LET result == DbGet(tbl, <<"USER", userId>>, <<"PROFILE", userId>>)
    IN  IF result = {} THEN Null ELSE CHOOSE it \in result : TRUE

UserFindById(tbl, userId) ==
    LET result == DbGet(tbl, <<"USER", userId>>, <<"PROFILE", userId>>)
    IN  IF result = {} THEN Null
        ELSE Without(CHOOSE it \in result : TRUE, "password")

\* findByEmail calls get with Key.sk = { begins_with: "USER#" }.  A get reads the
\* item that has exactly the key given, and this sort key, an object, is the sort
\* key of no item: the read finds nothing.
FindByEmailKey == <<"begins_with", "USER#">>
UserFindByEmailGet(tbl, email) == DbGet(tbl, <<"EMAIL", email>>, FindByEmailKey)
\* A store that checks the key against the table's schema (sk is a string)
\* rejects the call instead.
FindByEmailOutcomes == {"Item", "ValidationException"}

\* An update that writes the password like any other key.
UserUpdateSetsPlain(updates) ==
    [k \in DOMAIN updates \ {"id", "email"} |-> updates[k]] @@ Only("updatedAt", T1)

\* UserModel.update: the SET expression built from the updates object.
UserUpdateSets(updates) ==
    LET generic == [k \in DOMAIN updates \ {"id", "email", "password"} |-> updates[k]]
        pw == IF "password" \in DOMAIN updates /\ ~Falsy(updates.password)
              THEN Only("password", Hash(updates.password)) ELSE EmptyRec
    IN  pw @@ generic @@ Only("updatedAt", T1)

\* validateCredentials: Items[0] of the query on EMAIL#email, in sort-key order.
FirstUserId(items) ==
    LET n == CHOOSE n \in 1..MaxUsers :
                 /\ \E it \in items : it.id = UserIdOf(n)
                 /\ \A m \in 1..n - 1 : \A it \in items : it.id # UserIdOf(m)
    IN  UserIdOf(n)

\* jwt.sign({ id }, jwtSecret, { expiresIn }): the payload, the key that signed
\* it, and whether its time is over when it is presented.
JwtSecret == "jwtSecret"
SignToken(userId) == [id |-> userId, key |-> JwtSecret, expired |-> FALSE]

\* A verification that does not look at the expiry.
JwtVerifyIgnoresExpiry(token, secret) ==
    IF token.key # secret THEN [error |-> "JsonWebTokenError"]
    ELSE [id |-> token.id]

\* jwt.verify(token, secret): the decoded payload, or the error thrown.
JwtVerify(token, secret) ==
    IF token.key # secret THEN [error |-> "JsonWebTokenError"]
    ELSE IF token.expired THEN [error |-> "TokenExpiredError"]
    ELSE [id |-> token.id]

\* UserModel.findByEmail with no write between its storage calls.
UserFindByEmail(tbl, email) ==
    LET result == UserFindByEmailGet(tbl, email)
    IN  IF result = {} THEN Null
        ELSE UserFindById(tbl, (CHOOSE it \in result : TRUE).id)

\* UserModel.validateCredentials with no write between its storage calls.
ValidateCredentials(tbl, email, password) ==
    LET items == {it \in tbl : it.pk = <<"EMAIL", email>>}
        userId == FirstUserId(items)
        result == DbGet(tbl, <<"USER", userId>>, <<"PROFILE", userId>>)
        user == CHOOSE it \in result : TRUE
    IN  IF items = {} THEN Null
        ELSE IF result = {} THEN Null
        ELSE IF ~Compare(password, user.password) THEN Null
        ELSE Without(user, "password")


\* ------------------------------------------------------ auth.controller
Pending(opname) == Cardinality({o \in Reqs : req[o].op = opname /\ InFlight(req[o])})

\* utils/errorHandler: an error handed to next() is answered 500, message withheld.
InternalError(q) == Respond(q, 500, [message |-> "Internal server error"])

\* A user primary record holds this email.
EmailTaken(tbl, email) ==
    \E it \in tbl : it.pk[1] = "USER" /\ it.sk[1] = "PROFILE" /\ Attr(it, "email") = email

\* POST /api/auth/register
RegisterArrive(r, email, password) ==
    /\ dbType = "dynamodb"
    /\ req[r].pc = "idle"
    /\ (nextUid - 1) + Pending("register") < MaxUsers
    /\ LET q == [Idle EXCEPT !.op = "register",
                             !.arg = [email |-> email, password |-> password],
                             !.taken = EmailTaken(table, email)]
       IN  req' = ArriveRegister(r,
               IF Falsy(email) \/ Falsy(password)
               THEN Respond(q, 400, [message |-> "Email and password are required"])
               ELSE [q EXCEPT !.pc = "findByEmail"])
    /\ UNCHANGED <<proc, scanOrder, dbType, table, rows, nextUid, nextPid, issued, hist>>

\* UserModel.findByEmail, its get; then the handler's existingUser test.
RegisterFindByEmail(r) ==
    /\ req[r].op = "register" /\ req[r].pc = "findByEmail"
    /\ \E outcome \in FindByEmailOutcomes :
         LET q == req[r]
             result == UserFindByEmailGet(table, q.arg.email)
         IN  Set(r, IF outcome = "ValidationException" THEN InternalError(q)
                    ELSE IF result = {} THEN [q EXCEPT !.pc = "create"]
                    ELSE [q EXCEPT !.pc = "findById",
                                   !.loc = [then |-> "findByEmail",
                                            id |-> (CHOOSE it \in result : TRUE).id]])
    /\ UNCHANGED <<proc, scanOrder, dbType, table, rows, nextUid, nextPid, issued, hist>>

\* UserModel.create, its transactWrite; then the 201 response with a token.
RegisterCreate(r) ==
    /\ req[r].op = "register" /\ req[r].pc = "create"
    /\ nextUid <= MaxUsers
    /\ LET q == req[r]
           userId == UserIdOf(nextUid)
           userData == [email |-> q.arg.email, password |-> q.arg.password,
                        firstName |-> Undef, lastName |-> Undef]
           tx == UserCreateTx(userId, userData)
           newUser == Without(UserItem(userId, userData), "password")
       IN  IF TxOk(table, tx)
           THEN /\ table' = DbTransactWrite(table, tx)
                /\ issued' = issued \cup {SignToken(newUser.id)}
                /\ Set(r, Respond([q EXCEPT !.writes = @ + 1], 201,
                          [message |-> "User registered successfully",
                           user |-> newUser, token |-> SignToken(newUser.id)]))
           ELSE /\ Set(r, InternalError(q))
                /\ UNCHANGED <<table, issued>>
    /\ nextUid' = nextUid + 1
    /\ UNCHANGED <<proc, scanOrder, dbType, rows, nextPid, hist>>

\* POST /api/auth/login
LoginArrive(r, email, password) ==
    /\ dbType = "dynamodb"
    /\ req[r].pc = "idle"
    /\ LET q == [Idle EXCEPT !.op = "login",
                             !.arg = [email |-> email, password |-> password]]
       IN  req' = Arrive(r,
               IF Falsy(email) \/ Falsy(password)
               THEN Respond(q, 400, [message |-> "Email and password are required"])
               ELSE [q EXCEPT !.pc = "validateCredentials.query"])
    /\ UNCHANGED <<proc, scanOrder, dbType, table, rows, nextUid, nextPid, issued, hist>>

\* A refusal that tells an unknown email from a wrong password.
InvalidLoginNamesCause(q) ==
    Respond(q, 401, [message |-> IF q.pc = "validateCredentials.query"
                                 THEN "Unknown email" ELSE "Invalid password"])

InvalidLogin(q) == Respond(q, 401, [message |-> "Invalid email or password"])

\* UserModel.validateCredentials, its query on EMAIL#email.  The query names
\* IndexName "EmailIndex"; the table is taken to have that index, keyed by pk.
LoginQuery(r) ==
    /\ req[r].op = "login" /\ req[r].pc = "validateCredentials.query"
    /\ LET q == req[r]
           items == {it \in table : it.pk = <<"EMAIL", q.arg.email>>}
       IN  Set(r, IF items = {} THEN InvalidLogin(q)
                  ELSE [q EXCEPT !.pc = "validateCredentials.get",
                                 !.loc = [id |-> FirstUserId(items)]])
    /\ UNCHANGED <<proc, scanOrder, dbType, table, rows, nextUid, nextPid, issued, hist>>

\* UserModel.validateCredentials, its get of the profile and the bcrypt compare.
LoginGet(r) ==
    /\ req[r].op = "login" /\ req[r].pc = "validateCredentials.get"
    /\ LET q == req[r]
           userId == q.loc.id
           result == DbGet(table, <<"USER", userId>>, <<"PROFILE", userId>>)
           user == CHOOSE it \in result : TRUE
       IN  Set(r, IF result = {} THEN InvalidLogin(q)
                  ELSE IF ~Compare(q.arg.password, user.password) THEN InvalidLogin(q)
                  ELSE [q EXCEPT !.pc = "updateLastLogin",
                                 !.loc = [user |-> Without(user, "password")]])
    /\ UNCHANGED <<proc, scanOrder, dbType, table, rows, nextUid, nextPid, issued, hist>>

\* UserModel.updateLastLogin; then the response with a token.
LoginUpdateLastLogin(r) ==
    /\ req[r].op = "login" /\ req[r].pc = "updateLastLogin"
    /\ LET q == req[r]
           user == q.loc.user
       IN  /\ table' = DbUpdate(table, <<"USER", user.id>>, <<"PROFILE", user.id>>,
                                Only("lastLogin", T1))
           /\ issued' = issued \cup {SignToken(user.id)}
           /\ Set(r, Respond([q EXCEPT !.writes = @ + 1], 200,
                     [message |-> "Login successful", user |-> user,
                      token |-> SignToken(user.id)]))
    /\ UNCHANGED <<proc, scanOrder, dbType, rows, nextUid, nextPid, hist>>


\* ---------------------------------------- ProductModel (key-value adapter)
ProductItem(productId, productData, userId) ==
    [pk |-> <<"PRODUCT", productId>>, sk |-> <<"DETAILS", productId>>, id |-> productId,
     name |-> productData.name, description |-> OrNull(productData.description),
     price |-> productData.price, imageUrl |-> OrNull(productData.imageUrl),
     category |-> OrNull(productData.category),
     stock |-> IF Falsy(productData.stock) THEN "0" ELSE productData.stock,
     isActive |-> TRUE, userId |-> userId, createdAt |-> T0, updatedAt |-> T0]

UserIndexItem(userId, productId) ==
    [pk |-> <<"USER", userId>>, sk |-> <<"PRODUCT", productId>>, id |-> productId]

CategoryItem(category, productId) ==
    [pk |-> <<"CATEGORY", category>>, sk |-> <<"PRODUCT", productId>>, id |-> productId]

\* The primary and the owner index are conditional puts; the category put is not.
ProductCreateTx(productId, productData, userId) ==
    << [kind |-> "Put", item |-> ProductItem(productId, productData, userId), cond |-> TRUE],
       [kind |-> "Put", item |-> UserIndexItem(userId, productId), cond |-> TRUE] >>
    \o IF Falsy(productData.category) THEN <<>>
       ELSE << [kind |-> "Put", item |-> CategoryItem(productData.category, productId),
                cond |-> FALSE] >>

ProductFindById(tbl, productId) ==
    LET result == DbGet(tbl, <<"PRODUCT", productId>>, <<"DETAILS", productId>>)
    IN  IF result = {} THEN Null ELSE CHOOSE it \in result : TRUE

\* The ids of the index items of a query, in sort-key order.
IndexedIds(items) ==
    LET all == [n \in 1..MaxProducts |-> ProductIdOf(n)]
        Hit(id) == \E it \in items : it.id = id
    IN  SelectSeq(all, Hit)

\* ProductModel.update: the SET expression built from the updates object.
ProductUpdateSets(updates) ==
    LET keep == DOMAIN updates \ {"id", "userId", "pk", "sk", "createdAt"}
    IN  [k \in keep |-> updates[k]] @@ Only("updatedAt", T1)

\* updates.category && updates.category !== product.category
CategoryChanges(updates, product) ==
    /\ ~Falsy(Attr(updates, "category"))
    /\ updates.category # Attr(product, "category")

\* A category change that puts the new index record and leaves the old one.
CategoryWritePutOnly(tbl, productId, updates, product) ==
    DbPut(tbl, CategoryItem(updates.category, productId))

\* The index writes of a category change: delete-and-put in one transaction when
\* the product had a category, a lone put otherwise.
CategoryWrite(tbl, productId, updates, product) ==
    LET newCategoryItem == CategoryItem(updates.category, productId)
    IN  IF ~Falsy(Attr(product, "category"))
        THEN DbTransactWrite(tbl,
                << [kind |-> "Delete", pk |-> <<"CATEGORY", product.category>>,
                    sk |-> <<"PRODUCT", productId>>],
                   [kind |-> "Put", item |-> newCategoryItem, cond |-> FALSE] >>)
        ELSE DbPut(tbl, newCategoryItem)

\* ProductModel.delete: the keys its transaction deletes.
ProductDeleteTx(productId, userId, product) ==
    << [kind |-> "Delete", pk |-> <<"PRODUCT", productId>>, sk |-> <<"DETAILS", productId>>],
       [kind |-> "Delete", pk |-> <<"USER", userId>>, sk |-> <<"PRODUCT", productId>>] >>
    \o IF Falsy(Attr(product, "category")) THEN <<>>
       ELSE << [kind |-> "Delete", pk |-> <<"CATEGORY", product.category>>,
                sk |-> <<"PRODUCT", productId>>] >>


\* JSON.stringify of a key object, as its text: braces around the members.
JsonStringify(key) == <<"{", <<"pk", key.pk>>, <<"sk", key.sk>>, "}">>

\* JSON.parse: the object the text denotes, or a SyntaxError.
JsonParse(text) ==
    IF /\ Len(text) = 4 /\ text[1] = "{" /\ text[4] = "}"
       /\ text[2][1] = "pk" /\ text[3][1] = "sk"
    THEN [pk |-> text[2][2], sk |-> text[3][2]]
    ELSE [error |-> "SyntaxError"]

\* Buffer.from(text).toString("base64") and Buffer.from(s, "base64").toString().
ToBase64(text) == [base64 |-> text]
FromBase64(s) == s.base64

\* A cursor that forgets the sort key of the marker.
EncodeCursorPkOnly(key) == ToBase64(<<"{", <<"pk", key.pk>>, "}">>)

\* ProductModel.list: the cursor it returns and the start key it reads from one.
EncodeCursor(key) == ToBase64(JsonStringify(key))
DecodeCursor(lastEvaluatedKey) == JsonParse(FromBase64(lastEvaluatedKey))

\* ExpressionAttributeValues: ":pk": "PRODUCT#", ":sk": "DETAILS#"
ProductDetailsFilter == [pk |-> "PRODUCT", sk |-> "DETAILS"]

\* ProductModel.list with a usable cursor (or none): the page and the raw result.
ProductList(tbl, order, limit, lastEvaluatedKey) ==
    LET start == IF lastEvaluatedKey = Null THEN Null ELSE DecodeCursor(lastEvaluatedKey)
        result == DbScan(tbl, order, limit, start, ProductDetailsFilter)
    IN  [products |-> result.Items,
         lastEvaluatedKey |-> IF result.LastEvaluatedKey # Null
                              THEN EncodeCursor(result.LastEvaluatedKey) ELSE Null,
         result |-> result]

\* ------------------------------------------------ routes and middleware
\* The Authorization header: absent, or a scheme and a token.
NoHeader == [scheme |-> Undef]
Bearer(tok) == [scheme |-> "Bearer", token |-> tok]

\* authenticate up to its first storage call: the header test, jwt.verify and its
\* catch, and the test of decoded.id.
Authenticate(q, header) ==
    IF header.scheme # "Bearer"
    THEN Respond(q, 401, [message |-> "Authentication required"])
    ELSE LET decoded == JwtVerify(header.token, JwtSecret)
         IN  IF "error" \in DOMAIN decoded
             THEN Respond(q, 401, [message |-> "Invalid or expired token"])
             ELSE IF Falsy(decoded.id)
             THEN Respond(q, 401, [message |-> "Invalid token"])
             ELSE [q EXCEPT !.pc = IF dbType = "rds" THEN "findByPk" ELSE "findById",
                            !.loc = [then |-> "authenticate", id |-> decoded.id]]

\* A bearer-protected route: authenticate runs first, on the token of the header.
Protected(q, tok) == Authenticate(q, Bearer(tok))

\* A createProduct that does not test its input.
ProductHandlerUnvalidated(q) ==
    IF ~q.user.isActive THEN Respond(q, 403, [message |-> "Account is not active"])
    ELSE [q EXCEPT !.pc = "create", !.loc = Null]

\* The product handlers behind authenticate alone.
ProductHandlerAnyAccount(q) ==
    IF q.op = "createProduct"
    THEN IF Falsy(q.arg.name) \/ Falsy(q.arg.price)
         THEN Respond(q, 400, [message |-> "Name and price are required"])
         ELSE [q EXCEPT !.pc = IF dbType = "rds" THEN "rds.create" ELSE "create",
                        !.loc = Null]
    ELSE IF q.op = "updateProduct"
    THEN [q EXCEPT !.pc = IF dbType = "rds" THEN "rds.update.findByPk" ELSE "update.findById",
                   !.loc = Null]
    ELSE [q EXCEPT !.pc = IF dbType = "rds" THEN "rds.delete.findByPk" ELSE "delete.findById",
                   !.loc = Null]

\* isActive, then the product handler up to its first storage call.
ProductHandler(q) ==
    IF ~q.user.isActive THEN Respond(q, 403, [message |-> "Account is not active"])
    ELSE IF q.op = "createProduct"
    THEN IF Falsy(q.arg.name) \/ Falsy(q.arg.price)
         THEN Respond(q, 400, [message |-> "Name and price are required"])
         ELSE [q EXCEPT !.pc = IF dbType = "rds" THEN "rds.create" ELSE "create",
                        !.loc = Null]
    ELSE IF q.op = "updateProduct"
    THEN [q EXCEPT !.pc = IF dbType = "rds" THEN "rds.update.findByPk" ELSE "update.findById",
                   !.loc = Null]
    ELSE [q EXCEPT !.pc = IF dbType = "rds" THEN "rds.delete.findByPk" ELSE "delete.findById",
                   !.loc = Null]

\* The upload routes.
UploadOps == {"getSignedUploadUrl", "deleteFile", "listFiles"}

\* isActive, then the upload handler up to its first call of the object store;
\* getSignedUrl is computed without one.
UploadHandler(q) ==
    IF ~q.user.isActive THEN Respond(q, 403, [message |-> "Account is not active"])
    ELSE IF q.op = "getSignedUploadUrl"
    THEN Respond(q, 200, [signedUrl |-> "signedUrl", fileUrl |-> "fileUrl",
                          fileName |-> "general/uuid.png"])
    ELSE [q EXCEPT !.pc = "s3", !.loc = Null]

\* What follows authenticate's next(): the route's remaining middleware and handler.
AfterAuthenticate(q) ==
    CASE q.op = "getProfile" -> Respond(q, 200, [user |-> q.user])
      [] q.op = "updateProfile" ->
            [q EXCEPT !.pc = "findById", !.loc = [then |-> "update", id |-> q.user.id]]
      [] q.op = "getProductsByUser" ->
            [q EXCEPT !.pc = IF dbType = "rds" THEN "rds.findAll" ELSE "query", !.loc = Null]
      [] q.op \in UploadOps -> UploadHandler(q)
      [] OTHER -> ProductHandler(q)

\* UserModel.findById, its get, and the caller's code up to the next storage call:
\* findByEmail (register), authenticate, or UserModel.update.
UserFindByIdStep(r) ==
    /\ req[r].pc = "findById"
    /\ LET q == req[r]
           user == UserFindById(table, q.loc.id)
       IN  Set(r,
             CASE q.loc.then = "findByEmail" ->
                    IF user # Null
                    THEN Respond(q, 409, [message |-> "User with this email already exists"])
                    ELSE [q EXCEPT !.pc = "create"]
               [] q.loc.then = "authenticate" ->
                    IF user = Null THEN Respond(q, 401, [message |-> "User not found"])
                    ELSE AfterAuthenticate([q EXCEPT !.user = user])
               [] OTHER ->
                    IF user = Null THEN InternalError(q)
                    ELSE [q EXCEPT !.pc = "update.write"])
    /\ UNCHANGED <<proc, scanOrder, dbType, table, rows, nextUid, nextPid, issued, hist>>

\* authenticate on the relational backend: findByPk, toJSON, delete password.
AuthenticateRds(r) ==
    /\ req[r].pc = "findByPk"
    /\ LET q == req[r]
           found == {u \in rows.Users : u.id = q.loc.id}
       IN  Set(r, IF found = {} THEN Respond(q, 401, [message |-> "User not found"])
                  ELSE AfterAuthenticate(
                         [q EXCEPT !.user = Without(CHOOSE u \in found : TRUE, "password")]))
    /\ UNCHANGED <<proc, scanOrder, dbType, table, rows, nextUid, nextPid, issued, hist>>

\* The bearer-protected product routes.
ProtectedOps == {"createProduct", "updateProduct", "deleteProduct", "getProductsByUser"}

\* Headers that carry no usable token: none, another scheme, a token past its
\* time, one not signed with the secret, one without an id, and one whose id is
\* no user's.
BadHeaders ==
    LET tok == SignToken(UserIdOf(1))
    IN  {NoHeader,
         [scheme |-> "Basic", token |-> tok],
         Bearer([tok EXCEPT !.expired = TRUE]),
         Bearer([tok EXCEPT !.key = "forged"]),
         Bearer(SignToken(Undef)),
         Bearer(SignToken(UserIdOf(0)))}

\* A request to a bearer-protected product route with this Authorization header,
\* its body and :productId those of a well-formed request.
ProtectedRouteArrive(r, opname, productId, header) ==
    /\ req[r].pc = "idle"
    /\ req' = Arrive(r, Authenticate(
                 [Idle EXCEPT !.op = opname,
                              !.arg = [header |-> header, name |-> "Widget",
                                       price |-> "9.99", category |-> Undef,
                                       productId |-> productId, updates |-> EmptyRec]],
                 header))
    /\ hist' = IF opname \in {"updateProduct", "deleteProduct"}
               THEN [hist EXCEPT ![productId].touched = IF @ < 2 THEN @ + 1 ELSE 2]
               ELSE hist
    /\ UNCHANGED <<proc, scanOrder, dbType, table, rows, nextUid, nextPid, issued>>

\* GET /api/auth/profile
GetProfileArrive(r, tok) ==
    /\ dbType = "dynamodb"
    /\ req[r].pc = "idle"
    /\ req' = Arrive(r, Protected([Idle EXCEPT !.op = "getProfile"], tok))
    /\ UNCHANGED <<proc, scanOrder, dbType, table, rows, nextUid, nextPid, issued, hist>>

\* The updates object updateProfile builds from the body.
ProfileUpdates(firstName, password) ==
    (IF firstName # Undef THEN Only("firstName", firstName) ELSE EmptyRec)
    @@ (IF ~Falsy(password) THEN Only("password", password) ELSE EmptyRec)

\* PUT /api/auth/profile
UpdateProfileArrive(r, tok, firstName, password) ==
    /\ dbType = "dynamodb"
    /\ req[r].pc = "idle"
    /\ req' = Arrive(r, Protected(
                 [Idle EXCEPT !.op = "updateProfile",
                              !.arg = [updates |-> ProfileUpdates(firstName, password)]], tok))
    /\ UNCHANGED <<proc, scanOrder, dbType, table, rows, nextUid, nextPid, issued, hist>>

\* UserModel.update, its UpdateItem with ReturnValues ALL_NEW.
UpdateProfileWrite(r) ==
    /\ req[r].op = "updateProfile" /\ req[r].pc = "update.write"
    /\ LET q == req[r]
           userId == q.user.id
           pk == <<"USER", userId>>
           sk == <<"PROFILE", userId>>
       IN  /\ table' = DbUpdate(table, pk, sk, UserUpdateSets(q.arg.updates))
           /\ Set(r, Respond([q EXCEPT !.writes = @ + 1], 200,
                     [message |-> "Profile updated successfully",
                      user |-> Without(UpdatedItem(table', pk, sk), "password")]))
    /\ UNCHANGED <<proc, scanOrder, dbType, rows, nextUid, nextPid, issued, hist>>

\* POST /api/upload/sign-url, DELETE /api/upload/:fileName, GET /api/upload/list
UploadArrive(r, tok, opname) ==
    /\ req[r].pc = "idle"
    /\ req' = Arrive(r, Protected(
                 [Idle EXCEPT !.op = opname,
                              !.arg = [fileType |-> "image/png", fileName |-> "a.png"]], tok))
    /\ UNCHANGED <<proc, scanOrder, dbType, table, rows, nextUid, nextPid, issued, hist>>

\* deleteFile / listFiles: s3.deleteObject or s3.listObjectsV2 returns or throws.
UploadS3(r, ok) ==
    /\ req[r].op \in UploadOps /\ req[r].pc = "s3"
    /\ Set(r, IF ~ok THEN InternalError(req[r])
               ELSE IF req[r].op = "deleteFile"
               THEN Respond(req[r], 200, [message |-> "File deleted successfully"])
               ELSE Respond(req[r], 200, [files |-> <<>>]))
    /\ UNCHANGED <<proc, scanOrder, dbType, table, rows, nextUid, nextPid, issued, hist>>

\* The response has been sent; the slot is free again.
Finish(r) ==
    /\ req[r].pc = "done"
    /\ Set(r, Idle)
    /\ UNCHANGED <<proc, scanOrder, dbType, table, rows, nextUid, nextPid, issued, hist>>


RECURSIVE Resolve(_, _)
Resolve(tbl, ids) ==
    IF ids = <<>> THEN <<>>
    ELSE LET product == ProductFindById(tbl, Head(ids))
         IN  (IF product = Null THEN <<>> ELSE <<product>>) \o Resolve(tbl, Tail(ids))

\* ProductModel.findByCategory with no write between its storage calls.
FindByCategory(tbl, category) ==
    Resolve(tbl, IndexedIds(DbQuery(tbl, <<"CATEGORY", category>>, "PRODUCT")))

\* --------------------------------------- product.controller, key-value
\* POST /api/products
CreateProductArrive(r, tok, name, price, category) ==
    /\ req[r].pc = "idle"
    /\ (nextPid - 1) + Pending("createProduct") < MaxProducts
    /\ req' = Arrive(r, Protected(
                 [Idle EXCEPT !.op = "createProduct",
                              !.arg = [name |-> name, price |-> price,
                                       category |-> category]], tok))
    /\ UNCHANGED <<proc, scanOrder, dbType, table, rows, nextUid, nextPid, issued, hist>>

\* The productData createProduct hands to the adapter.
ProductData(arg) ==
    [name |-> arg.name, description |-> Undef, price |-> arg.price, imageUrl |-> NullV,
     category |-> arg.category, stock |-> "0"]

\* ProductModel.create, its transactWrite; then the 201 response.
CreateProduct(r) ==
    /\ req[r].op = "createProduct" /\ req[r].pc = "create"
    /\ nextPid <= MaxProducts
    /\ LET q == req[r]
           productId == ProductIdOf(nextPid)
           tx == ProductCreateTx(productId, ProductData(q.arg), q.user.id)
       IN  IF TxOk(table, tx)
           THEN /\ table' = DbTransactWrite(table, tx)
                /\ hist' = [hist EXCEPT ![productId].creator = q.user.id]
                /\ Set(r, Respond([q EXCEPT !.writes = @ + 1], 201,
                          [message |-> "Product created successfully",
                           product |-> ProductItem(productId, ProductData(q.arg), q.user.id)]))
           ELSE /\ Set(r, InternalError(q))
                /\ UNCHANGED <<table, hist>>
    /\ nextPid' = nextPid + 1
    /\ UNCHANGED <<proc, scanOrder, dbType, rows, nextUid, issued>>

\* The updates object updateProduct builds from the body.
ProductUpdates(category) ==
    IF category # Undef THEN Only("category", category) ELSE EmptyRec

\* PUT /api/products/:productId
UpdateProductArrive(r, tok, productId, category) ==
    /\ req[r].pc = "idle"
    /\ req' = Arrive(r, Protected(
                 [Idle EXCEPT !.op = "updateProduct",
                              !.arg = [productId |-> productId,
                                       updates |-> ProductUpdates(category)]], tok))
    /\ hist' = [hist EXCEPT ![productId].touched = IF @ < 2 THEN @ + 1 ELSE 2]
    /\ UNCHANGED <<proc, scanOrder, dbType, table, rows, nextUid, nextPid, issued>>

NotFound(q) == Respond(q, 404, [message |-> "Product not found"])
Forbidden(q, verb) ==
    Respond(q, 403, [message |-> "Unauthorized to " \o verb \o " this product"])

\* An update that hides a product from everyone but its owner.
UpdateFindHidden(q, product) ==
    IF product = Null \/ Attr(product, "userId") # q.user.id THEN NotFound(q)
    ELSE [q EXCEPT !.loc = [product |-> product],
                   !.pc = IF CategoryChanges(q.arg.updates, product)
                          THEN "update.category" ELSE "update.primary"]

\* ProductModel.update up to its first write: findById, the not-found and the
\* ownership check, and the choice of the category write.
UpdateFind(q, product) ==
    IF product = Null THEN NotFound(q)
    ELSE IF Attr(product, "userId") # q.user.id THEN Forbidden(q, "update")
    ELSE [q EXCEPT !.loc = [product |-> product],
                   !.pc = IF CategoryChanges(q.arg.updates, product)
                          THEN "update.category" ELSE "update.primary"]

UpdateProductFind(r) ==
    /\ req[r].op = "updateProduct" /\ req[r].pc = "update.findById"
    /\ Set(r, UpdateFind(req[r], ProductFindById(table, req[r].arg.productId)))
    /\ UNCHANGED <<proc, scanOrder, dbType, table, rows, nextUid, nextPid, issued, hist>>

\* ProductModel.update, the write of the category index records.
UpdateProductCategory(r) ==
    /\ req[r].op = "updateProduct" /\ req[r].pc = "update.category"
    /\ LET q == req[r]
       IN  /\ table' = CategoryWrite(table, q.arg.productId, q.arg.updates, q.loc.product)
           /\ Set(r, [q EXCEPT !.pc = "update.primary", !.writes = @ + 1])
    /\ UNCHANGED <<proc, scanOrder, dbType, rows, nextUid, nextPid, issued, hist>>

\* ProductModel.update, the UpdateItem of the primary record; then the response.
UpdateProductPrimary(r) ==
    /\ req[r].op = "updateProduct" /\ req[r].pc = "update.primary"
    /\ LET q == req[r]
           pk == <<"PRODUCT", q.arg.productId>>
           sk == <<"DETAILS", q.arg.productId>>
       IN  /\ table' = DbUpdate(table, pk, sk, ProductUpdateSets(q.arg.updates))
           /\ Set(r, Respond([q EXCEPT !.writes = @ + 1], 200,
                     [message |-> "Product updated successfully",
                      product |-> UpdatedItem(table', pk, sk)]))
    /\ UNCHANGED <<proc, scanOrder, dbType, rows, nextUid, nextPid, issued, hist>>

\* DELETE /api/products/:productId
DeleteProductArrive(r, tok, productId) ==
    /\ req[r].pc = "idle"
    /\ req' = Arrive(r, Protected(
                 [Idle EXCEPT !.op = "deleteProduct",
                              !.arg = [productId |-> productId]], tok))
    /\ hist' = [hist EXCEPT ![productId].touched = IF @ < 2 THEN @ + 1 ELSE 2]
    /\ UNCHANGED <<proc, scanOrder, dbType, table, rows, nextUid, nextPid, issued>>

\* A delete without the ownership check.
DeleteFindAnyCaller(q, product) ==
    IF product = Null THEN NotFound(q)
    ELSE [q EXCEPT !.loc = [product |-> product], !.pc = "delete.transactWrite"]

\* ProductModel.delete up to its write: findById, the not-found and the
\* ownership check.
DeleteFind(q, product) ==
    IF product = Null THEN NotFound(q)
    ELSE IF Attr(product, "userId") # q.user.id THEN Forbidden(q, "delete")
    ELSE [q EXCEPT !.loc = [product |-> product], !.pc = "delete.transactWrite"]

\* A delete that issues its transaction before the ownership check.
DeleteProductWriteThenCheck(r) ==
    /\ req[r].op = "deleteProduct" /\ req[r].pc = "delete.findById"
    /\ LET q == req[r]
           product == ProductFindById(table, q.arg.productId)
       IN  /\ table' = IF product = Null THEN table
                        ELSE DbTransactWrite(table,
                               ProductDeleteTx(q.arg.productId, q.user.id, product))
           /\ Set(r, IF product = Null THEN NotFound(q)
                      ELSE IF Attr(product, "userId") # q.user.id THEN Forbidden(q, "delete")
                      ELSE Respond(q, 200, [message |-> "Product deleted successfully"]))
    /\ UNCHANGED <<proc, scanOrder, dbType, rows, nextUid, nextPid, issued, hist>>

DeleteProductFind(r) ==
    /\ req[r].op = "deleteProduct" /\ req[r].pc = "delete.findById"
    /\ Set(r, DeleteFind(req[r], ProductFindById(table, req[r].arg.productId)))
    /\ UNCHANGED <<proc, scanOrder, dbType, table, rows, nextUid, nextPid, issued, hist>>

\* ProductModel.delete, its transactWrite; then the response.
DeleteProductWrite(r) ==
    /\ req[r].op = "deleteProduct" /\ req[r].pc = "delete.transactWrite"
    /\ LET q == req[r]
       IN  /\ table' = DbTransactWrite(table,
                          ProductDeleteTx(q.arg.productId, q.user.id, q.loc.product))
           /\ Set(r, Respond([q EXCEPT !.writes = @ + 1], 200,
                     [message |-> "Product deleted successfully"]))
    /\ UNCHANGED <<proc, scanOrder, dbType, rows, nextUid, nextPid, issued, hist>>

\* A write of ProductModel.update or ProductModel.delete is rejected by the store:
\* the call throws, nothing of it is applied, and the handler hands the error on.
StoreWriteFails(r) ==
    /\ req[r].pc \in {"update.category", "update.primary", "delete.transactWrite"}
    /\ Set(r, InternalError(req[r]))
    /\ UNCHANGED <<proc, scanOrder, dbType, table, rows, nextUid, nextPid, issued, hist>>

\* GET /api/products/:productId
GetProductByIdArrive(r, productId) ==
    /\ dbType = "dynamodb"
    /\ req[r].pc = "idle"
    /\ req' = Arrive(r, [Idle EXCEPT !.op = "getProductById", !.pc = "get",
                                     !.arg = [productId |-> productId]])
    /\ UNCHANGED <<proc, scanOrder, dbType, table, rows, nextUid, nextPid, issued, hist>>

GetProductById(r) ==
    /\ req[r].op = "getProductById" /\ req[r].pc = "get"
    /\ LET q == req[r]
           product == ProductFindById(table, q.arg.productId)
       IN  Set(r, IF product = Null THEN NotFound(q)
                  ELSE Respond(q, 200, [product |-> product]))
    /\ UNCHANGED <<proc, scanOrder, dbType, table, rows, nextUid, nextPid, issued, hist>>

\* GET /api/products/category/:category
GetProductsByCategoryArrive(r, category) ==
    /\ dbType = "dynamodb"
    /\ req[r].pc = "idle"
    /\ req' = Arrive(r, [Idle EXCEPT !.op = "getProductsByCategory", !.pc = "query",
                                     !.arg = [category |-> category]])
    /\ UNCHANGED <<proc, scanOrder, dbType, table, rows, nextUid, nextPid, issued, hist>>

\* GET /api/products/user/me
GetProductsByUserArrive(r, tok) ==
    /\ dbType = "dynamodb"
    /\ req[r].pc = "idle"
    /\ req' = Arrive(r, Protected([Idle EXCEPT !.op = "getProductsByUser"], tok))
    /\ UNCHANGED <<proc, scanOrder, dbType, table, rows, nextUid, nextPid, issued, hist>>

\* findByUserId / findByCategory: the partition key of the index query.
IndexPk(q) ==
    IF q.op = "getProductsByUser" THEN <<"USER", q.user.id>>
    ELSE <<"CATEGORY", q.arg.category>>

\* findByUserId / findByCategory, the query of the index records.
FindQuery(r) ==
    /\ req[r].op \in {"getProductsByUser", "getProductsByCategory"}
    /\ req[r].pc = "query"
    /\ LET q == req[r]
           items == DbQuery(table, IndexPk(q), "PRODUCT")
       IN  Set(r, IF items = {} THEN Respond(q, 200, [products |-> <<>>])
                  ELSE [q EXCEPT !.pc = "resolve",
                                 !.loc = [todo |-> IndexedIds(items), products |-> <<>>]])
    /\ UNCHANGED <<proc, scanOrder, dbType, table, rows, nextUid, nextPid, issued, hist>>

\* findByUserId / findByCategory, one turn of the loop: findById of the next
\* index record, kept when the primary record exists.
FindResolve(r) ==
    /\ req[r].pc = "resolve"
    /\ LET q == req[r]
           product == ProductFindById(table, Head(q.loc.todo))
           products == IF product = Null THEN q.loc.products
                       ELSE Append(q.loc.products, product)
           todo == Tail(q.loc.todo)
       IN  Set(r, IF todo = <<>> THEN Respond(q, 200, [products |-> products])
                  ELSE [q EXCEPT !.loc = [todo |-> todo, products |-> products]])
    /\ UNCHANGED <<proc, scanOrder, dbType, table, rows, nextUid, nextPid, issued, hist>>

\* parseInt(req.query.limit) || 20: an absent limit parses to NaN, which like 0
\* gives the default.
DefaultLimit == 20
ParseLimit(limit) == IF limit = 0 THEN DefaultLimit ELSE limit

\* GET /api/products?limit=&lastKey=
GetAllProductsArrive(r, limit, lastKey) ==
    /\ dbType = "dynamodb"
    /\ req[r].pc = "idle"
    /\ req' = Arrive(r, [Idle EXCEPT !.op = "getAllProducts", !.pc = "list.scan",
                                     !.arg = [limit |-> ParseLimit(limit),
                                              lastKey |-> lastKey]])
    /\ UNCHANGED <<proc, scanOrder, dbType, table, rows, nextUid, nextPid, issued, hist>>

\* ProductModel.list, its scan; then the response with the page and its cursor.
GetAllProducts(r) ==
    /\ req[r].op = "getAllProducts" /\ req[r].pc = "list.scan"
    /\ LET q == req[r]
           result == ProductList(table, scanOrder, q.arg.limit, q.arg.lastKey)
       IN  Set(r, IF q.arg.lastKey # Null /\ "error" \in DOMAIN DecodeCursor(q.arg.lastKey)
                  THEN InternalError(q)
                  ELSE Respond([q EXCEPT !.loc = result.result], 200,
                          [products |-> result.products,
                           pagination |-> [lastEvaluatedKey |-> result.lastEvaluatedKey,
                                           hasMore |-> result.lastEvaluatedKey # Null]]))
    /\ UNCHANGED <<proc, scanOrder, dbType, table, rows, nextUid, nextPid, issued, hist>>

\* A caller of GET /api/products who starts without a cursor and then asks for
\* the page of each cursor returned; walked is what the earlier pages held.
WalkStart(r, limit) ==
    /\ dbType = "dynamodb"
    /\ req[r].pc = "idle"
    /\ req' = Arrive(r, [Idle EXCEPT !.op = "getAllProducts", !.pc = "list.scan",
                                     !.arg = [limit |-> ParseLimit(limit),
                                              lastKey |-> Null, walked |-> <<>>]])
    /\ UNCHANGED <<proc, scanOrder, dbType, table, rows, nextUid, nextPid, issued, hist>>

WalkFollow(r) ==
    /\ req[r].op = "getAllProducts" /\ req[r].pc = "done" /\ req[r].status = 200
    /\ "walked" \in DOMAIN req[r].arg
    /\ req[r].body.pagination.hasMore
    /\ req' = Arrive(r, [Idle EXCEPT !.op = "getAllProducts", !.pc = "list.scan",
                                     !.arg = [limit |-> req[r].arg.limit,
                                              lastKey |-> req[r].body.pagination.lastEvaluatedKey,
                                              walked |-> req[r].arg.walked
                                                         \o req[r].body.products]])
    /\ UNCHANGED <<proc, scanOrder, dbType, table, rows, nextUid, nextPid, issued, hist>>

\* ---------------------------------------- product.controller, relational
RdsFindByPk(productId) ==
    LET found == {p \in rows.Products : p.id = productId}
    IN  IF found = {} THEN Null ELSE CHOOSE p \in found : TRUE

\* Product.create: the row inserted, its userId a foreign key into Users.
RdsProductRow(productId, arg, userId) ==
    [id |-> productId, name |-> arg.name, description |-> NullV, price |-> arg.price,
     imageUrl |-> NullV, category |-> OrNull(arg.category), stock |-> "0",
     isActive |-> TRUE, userId |-> userId, createdAt |-> T0, updatedAt |-> T0]

RdsCreateProduct(r) ==
    /\ req[r].op = "createProduct" /\ req[r].pc = "rds.create"
    /\ nextPid <= MaxProducts
    /\ LET q == req[r]
           productId == ProductIdOf(nextPid)
           row == RdsProductRow(productId, q.arg, q.user.id)
       IN  IF \E u \in rows.Users : u.id = row.userId
           THEN /\ rows' = [rows EXCEPT !.Products = @ \cup {row}]
                /\ hist' = [hist EXCEPT ![productId].creator = q.user.id]
                /\ Set(r, Respond([q EXCEPT !.writes = @ + 1], 201,
                          [message |-> "Product created successfully", product |-> row]))
           ELSE /\ Set(r, InternalError(q))
                /\ UNCHANGED <<rows, hist>>
    /\ nextPid' = nextPid + 1
    /\ UNCHANGED <<proc, scanOrder, dbType, table, nextUid, issued>>

\* updateProduct / deleteProduct: findByPk, then the handler's own checks.
RdsFind(q, product) ==
    IF product = Null THEN NotFound(q)
    ELSE IF product.userId # q.user.id
    THEN Forbidden(q, IF q.op = "updateProduct" THEN "update" ELSE "delete")
    ELSE [q EXCEPT !.loc = [product |-> product],
                   !.pc = IF q.op = "updateProduct" THEN "rds.update" ELSE "rds.destroy"]

RdsProductFind(r) ==
    /\ req[r].pc \in {"rds.update.findByPk", "rds.delete.findByPk"}
    /\ Set(r, RdsFind(req[r], RdsFindByPk(req[r].arg.productId)))
    /\ UNCHANGED <<proc, scanOrder, dbType, table, rows, nextUid, nextPid, issued, hist>>

\* product.update(updates): UPDATE ... WHERE id, of the row if it is still there.
RdsUpdateProduct(r) ==
    /\ req[r].pc = "rds.update"
    /\ LET q == req[r]
           sets == q.arg.updates @@ Only("updatedAt", T1)
           Apply(p) == IF p.id = q.arg.productId THEN sets @@ p ELSE p
       IN  /\ rows' = [rows EXCEPT !.Products = {Apply(p) : p \in @}]
           /\ Set(r, Respond([q EXCEPT !.writes = @ + 1], 200,
                     [message |-> "Product updated successfully",
                      product |-> sets @@ q.loc.product]))
    /\ UNCHANGED <<proc, scanOrder, dbType, table, nextUid, nextPid, issued, hist>>

\* product.destroy(): DELETE ... WHERE id.
RdsDestroyProduct(r) ==
    /\ req[r].pc = "rds.destroy"
    /\ LET q == req[r]
       IN  /\ rows' = [rows EXCEPT !.Products = {p \in @ : p.id # q.arg.productId}]
           /\ Set(r, Respond([q EXCEPT !.writes = @ + 1], 200,
                     [message |-> "Product deleted successfully"]))
    /\ UNCHANGED <<proc, scanOrder, dbType, table, nextUid, nextPid, issued, hist>>

\* ------------------------------------------------------ app.js, db/init.js
\* The values config.database.type is compared with, and one it is not.
ValidTypes == {"rds", "dynamodb"}
DbTypes == ValidTypes \cup {"mongodb"}

\* The process as app.js starts to run, and once initializeDatabase has completed
\* and the adapter modules have been loaded after it.
Ips == {"10.0.0.1", "10.0.0.2"}
NoCounts == [ip \in Ips |-> 0]
Loading == [phase |-> "loading", handle |-> "unloaded",
            requestCounts |-> NoCounts, admitted |-> NoCounts]
Initialized == [phase |-> "ready", handle |-> "client",
                requestCounts |-> NoCounts, admitted |-> NoCounts]

\* The event loop runs: the server has called listen and the process has not exited.
Serving == proc.phase \notin {"loading", "exited"}

\* An initializeDatabase that reaches the test of the type only after an await.
AppMainTestsLater ==
    /\ proc.phase = "loading"
    /\ proc' = [proc EXCEPT !.phase = IF dbType = "rds" THEN "rds.authenticate"
                                      ELSE "dynamodb.listTables"]
    /\ UNCHANGED <<scanOrder, dbType, table, rows, req, nextUid, nextPid, issued, hist>>

\* app.js run to its end: httpServer.listen, then dbInit() up to its first await.
\* With an unknown type initializeDatabase throws before any await, and its
\* catch calls process.exit(1) in the same run.
AppMain ==
    /\ proc.phase = "loading"
    /\ proc' = [proc EXCEPT !.phase = CASE dbType = "rds" -> "rds.authenticate"
                                        [] dbType = "dynamodb" -> "dynamodb.listTables"
                                        [] OTHER -> "exited"]
    /\ UNCHANGED <<scanOrder, dbType, table, rows, req, nextUid, nextPid, issued, hist>>

\* initializeDatabase resumes after an await: the call succeeded (ok) or threw,
\* and listTables named the table (exists) or not.
InitializeDatabaseStep(ok, exists) ==
    /\ proc.phase \in {"rds.authenticate", "rds.sync",
                       "dynamodb.listTables", "dynamodb.createTable"}
    /\ table # {} => exists
    /\ proc' = [proc EXCEPT !.phase =
                   IF ~ok THEN "exited"
                   ELSE CASE proc.phase = "rds.authenticate" -> "rds.sync"
                          [] proc.phase = "dynamodb.listTables" /\ ~exists
                                -> "dynamodb.createTable"
                          [] OTHER -> "ready"]
    /\ UNCHANGED <<scanOrder, dbType, table, rows, req, nextUid, nextPid, issued, hist>>

\* middleware/rateLimiter.js
MaxRequests == 100

\* A limiter that starts to count an address with its second request.
CountedFromSecond(counts, ip) == [counts EXCEPT ![ip] = IF @ = 0 THEN 0 ELSE @ + 1]

\* requestCounts after the limiter has counted a request of ip: a new entry with
\* count 1, or the entry's count plus one.
Counted(counts, ip) == [counts EXCEPT ![ip] = IF @ = 0 THEN 1 ELSE @ + 1]

\* GET / from address ip, through the limiter: 429 when the count is over the
\* limit, else next() and the handler's answer.
LimitedRootArrive(r, ip) ==
    /\ Serving
    /\ req[r].pc = "idle"
    /\ proc.requestCounts[ip] < MaxRequests + MaxOver
    /\ LET counts == Counted(proc.requestCounts, ip)
           q == [Idle EXCEPT !.op = "root", !.arg = [ip |-> ip]]
       IN  IF counts[ip] > MaxRequests
           THEN /\ proc' = [proc EXCEPT !.requestCounts = counts]
                /\ req' = Arrive(r, Respond(q, 429,
                             [message |-> "Too many requests, please try again later"]))
           ELSE /\ proc' = [proc EXCEPT !.requestCounts = counts,
                                        !.admitted[ip] = @ + 1]
                /\ req' = Arrive(r, Respond(q, 200,
                             [message |-> "Welcome to the AWS CRUD API"]))
    /\ UNCHANGED <<scanOrder, dbType, table, rows, nextUid, nextPid, issued, hist>>

\* The setInterval callback: every entry of requestCounts is deleted.
TimerReset ==
    /\ Serving
    /\ proc' = [proc EXCEPT !.requestCounts = NoCounts, !.admitted = NoCounts]
    /\ UNCHANGED <<scanOrder, dbType, table, rows, req, nextUid, nextPid, issued, hist>>

\* GET /
RootArrive(r) ==
    /\ Serving
    /\ req[r].pc = "idle"
    /\ req' = Arrive(r, Respond([Idle EXCEPT !.op = "root"], 200,
                                [message |-> "Welcome to the AWS CRUD API"]))
    /\ UNCHANGED <<proc, scanOrder, dbType, table, rows, nextUid, nextPid, issued, hist>>

\* GET /api/products/:productId while the process starts: getProductModel()
\* requires product.model.js, which on its first load binds the dynamoDb that
\* db/init exports at that moment; a call on a null handle throws.
GetProductByIdRequire(r, productId) ==
    /\ Serving
    /\ dbType = "dynamodb"
    /\ req[r].pc = "idle"
    /\ LET handle == IF proc.handle # "unloaded" THEN proc.handle
                     ELSE IF proc.phase = "ready" THEN "client" ELSE "null"
           q == [Idle EXCEPT !.op = "getProductById",
                             !.arg = [productId |-> productId]]
       IN  /\ proc' = [proc EXCEPT !.handle = handle]
           /\ req' = Arrive(r, IF handle = "null" THEN InternalError(q)
                               ELSE [q EXCEPT !.pc = "get"])
    /\ UNCHANGED <<scanOrder, dbType, table, rows, nextUid, nextPid, issued, hist>>

\* --------------------------------------------- the adapters, called directly
\* UserModel.update(userId, updates), for any updates object.
UserModelUpdate(r, userId, updates) ==
    /\ dbType = "dynamodb"
    /\ req[r].pc = "idle"
    /\ req' = Arrive(r, [Idle EXCEPT !.op = "updateProfile", !.pc = "findById",
                                     !.user = [id |-> userId],
                                     !.arg = [updates |-> updates],
                                     !.loc = [then |-> "update", id |-> userId]])
    /\ UNCHANGED <<proc, scanOrder, dbType, table, rows, nextUid, nextPid, issued, hist>>

\* ProductModel.update(productId, updates, userId), for any updates object.
ProductModelUpdate(r, productId, updates, userId) ==
    /\ dbType = "dynamodb"
    /\ req[r].pc = "idle"
    /\ req' = Arrive(r, [Idle EXCEPT !.op = "updateProduct", !.pc = "update.findById",
                                     !.user = [id |-> userId],
                                     !.arg = [productId |-> productId,
                                              updates |-> updates]])
    /\ hist' = [hist EXCEPT ![productId].touched = IF @ < 2 THEN @ + 1 ELSE 2]
    /\ UNCHANGED <<proc, scanOrder, dbType, table, rows, nextUid, nextPid, issued>>

\* ------------------------------------------------------ specifications
NoRows == [Users |-> {}, Products |-> {}]
NoHist == [p \in ProductIds |-> [creator |-> NullV, touched |-> 0]]

\* The key-value backend after initializeDatabase, its table empty.
Init ==
    /\ dbType = "dynamodb"
    /\ table = {}
    /\ rows = NoRows
    /\ req = [r \in Reqs |-> Idle]
    /\ nextUid = 1
    /\ nextPid = 1
    /\ issued = {}
    /\ hist = NoHist
    /\ scanOrder = <<>>
    /\ proc = Initialized

AuthNext ==
    \/ \E r \in Reqs, email \in Emails \cup {Undef}, password \in Passwords :
          RegisterArrive(r, email, password)
    \/ \E r \in Reqs : RegisterFindByEmail(r)
    \/ \E r \in Reqs : RegisterCreate(r)
    \/ \E r \in Reqs, email \in Emails, password \in Passwords \cup {"wrong"} :
          LoginArrive(r, email, password)
    \/ \E r \in Reqs : LoginQuery(r)
    \/ \E r \in Reqs : LoginGet(r)
    \/ \E r \in Reqs : LoginUpdateLastLogin(r)
    \/ \E r \in Reqs, tok \in issued : GetProfileArrive(r, tok)
    \/ \E r \in Reqs, tok \in issued, body \in ProfileBodies :
          UpdateProfileArrive(r, tok, body.firstName, body.password)
    \/ \E r \in Reqs : UserFindByIdStep(r)
    \/ \E r \in Reqs : UpdateProfileWrite(r)
    \/ \E r \in Reqs : Finish(r)

\* Registration, login and profile requests on the key-value backend.
Spec == Init /\ [][AuthNext]_vars


\* ---------------------------------------------------------------------
\* Two registered users, a token signed for each: the state both backends are in
\* after the registrations of a@x.com and b@x.com.
RegisteredUser(n, email) ==
    UserItem(UserIdOf(n), [email |-> email, password |-> "Abcd1234",
                           firstName |-> Undef, lastName |-> Undef])

TwoUsersTable ==
    {RegisteredUser(1, "a@x.com"), EmailIndexItem(UserIdOf(1), "a@x.com"),
     RegisteredUser(2, "b@x.com"), EmailIndexItem(UserIdOf(2), "b@x.com")}

TwoUsersRows ==
    {[k \in DOMAIN u \ {"pk", "sk"} |-> u[k]] :
        u \in {RegisteredUser(1, "a@x.com"), RegisteredUser(2, "b@x.com")}}

ProductInit ==
    /\ dbType \in {"dynamodb", "rds"}
    /\ table = IF dbType = "dynamodb" THEN TwoUsersTable ELSE {}
    /\ rows = IF dbType = "rds" THEN [Users |-> TwoUsersRows, Products |-> {}] ELSE NoRows
    /\ req = [r \in Reqs |-> Idle]
    /\ nextUid = 3
    /\ nextPid = 1
    /\ issued = {SignToken(UserIdOf(1)), SignToken(UserIdOf(2))}
    /\ hist = NoHist
    /\ scanOrder = <<>>
    /\ proc = Initialized

ProductNext ==
    \/ \E r \in Reqs, tok \in issued, category \in Categories \cup {Undef} :
          CreateProductArrive(r, tok, "Widget", "9.99", category)
    \/ \E r \in Reqs, tok \in issued, productId \in ProductIds,
          category \in Categories \cup {Undef, ""} :
          UpdateProductArrive(r, tok, productId, category)
    \/ \E r \in Reqs, tok \in issued, productId \in ProductIds :
          DeleteProductArrive(r, tok, productId)
    \/ \E r \in Reqs, productId \in ProductIds : GetProductByIdArrive(r, productId)
    \/ \E r \in Reqs, category \in Categories : GetProductsByCategoryArrive(r, category)
    \/ \E r \in Reqs, tok \in issued : GetProductsByUserArrive(r, tok)
    \/ \E r \in Reqs, opname \in ProtectedOps, productId \in ProductIds,
          header \in BadHeaders :
          ProtectedRouteArrive(r, opname, productId, header)
    \/ \E r \in Reqs : UserFindByIdStep(r)
    \/ \E r \in Reqs : AuthenticateRds(r)
    \/ \E r \in Reqs : CreateProduct(r)
    \/ \E r \in Reqs : UpdateProductFind(r)
    \/ \E r \in Reqs : UpdateProductCategory(r)
    \/ \E r \in Reqs : UpdateProductPrimary(r)
    \/ \E r \in Reqs : DeleteProductFind(r)
    \/ \E r \in Reqs : DeleteProductWrite(r)
    \/ \E r \in Reqs : StoreWriteFails(r)
    \/ \E r \in Reqs : GetProductById(r)
    \/ \E r \in Reqs : FindQuery(r)
    \/ \E r \in Reqs : FindResolve(r)
    \/ \E r \in Reqs : RdsCreateProduct(r)
    \/ \E r \in Reqs : RdsProductFind(r)
    \/ \E r \in Reqs : RdsUpdateProduct(r)
    \/ \E r \in Reqs : RdsDestroyProduct(r)
    \/ \E r \in Reqs : Finish(r)

\* Product requests of two registered users, on either backend.
ProductSpec == ProductInit /\ [][ProductNext]_vars

\* ---------------------------------------------------------------------
\* The table after one registration and the creation of n products by that user.
RECURSIVE ListedTable(_)
ListedTable(n) ==
    IF n = 0 THEN {RegisteredUser(1, "a@x.com"), EmailIndexItem(UserIdOf(1), "a@x.com")}
    ELSE DbTransactWrite(ListedTable(n - 1),
            ProductCreateTx(ProductIdOf(n),
                ProductData([name |-> "Widget", price |-> "9.99",
                             category |-> IF n = 1 THEN "c1" ELSE Undef]),
                UserIdOf(1)))

\* The orders in which a scan can meet the partitions of a table.
ScanOrders(tbl) ==
    LET pks == {it.pk : it \in tbl}
    IN  {o \in [1..Cardinality(pks) -> pks] : \A i, j \in DOMAIN o : o[i] = o[j] => i = j}

\* The cursors a caller sends: none, one of a key of the table, or a text that
\* is no cursor.
Cursors(tbl) ==
    {Null, ToBase64(<<"x">>)} \cup {EncodeCursor(KeyOf(it)) : it \in tbl}

ListInit ==
    /\ dbType = "dynamodb"
    /\ \E n \in 0..MaxListed :
          /\ table = ListedTable(n)
          /\ nextPid = n + 1
    /\ scanOrder \in ScanOrders(table)
    /\ proc = Initialized
    /\ rows = NoRows
    /\ req = [r \in Reqs |-> Idle]
    /\ nextUid = 2
    /\ issued = {SignToken(UserIdOf(1))}
    /\ hist = NoHist

ListNext ==
    \/ \E r \in Reqs, limit \in 0..MaxLimit, lastKey \in Cursors(table) :
          GetAllProductsArrive(r, limit, lastKey)
    \/ \E r \in Reqs : GetAllProducts(r)
    \/ \E r \in Reqs : Finish(r)

\* getAllProducts requests on a table that no request writes.
ListSpec == ListInit /\ [][ListNext]_vars

WalkNext ==
    \/ \E r \in Reqs, limit \in 0..MaxLimit : WalkStart(r, limit)
    \/ \E r \in Reqs : GetAllProducts(r)
    \/ \E r \in Reqs : WalkFollow(r)
    \/ \E r \in Reqs : Finish(r)

\* Callers who page through a table that no request writes.
WalkSpec == ListInit /\ [][WalkNext]_vars

\* ---------------------------------------------------------------------
\* The process from the start of app.js, under each configured type.
StartupInit ==
    /\ dbType \in DbTypes
    /\ table \in IF dbType = "dynamodb" THEN {{}, ListedTable(1)} ELSE {{}}
    /\ scanOrder = <<>>
    /\ proc = Loading
    /\ rows = NoRows
    /\ req = [r \in Reqs |-> Idle]
    /\ nextUid = IF table = {} THEN 1 ELSE 2
    /\ nextPid = IF table = {} THEN 1 ELSE 2
    /\ issued = IF table = {} THEN {} ELSE {SignToken(UserIdOf(1))}
    /\ hist = NoHist

StartupNext ==
    \/ AppMain
    \/ \E ok, exists \in BOOLEAN : InitializeDatabaseStep(ok, exists)
    \/ \E r \in Reqs : RootArrive(r)
    \/ \E r \in Reqs, productId \in ProductIds : GetProductByIdRequire(r, productId)
    \/ \E r \in Reqs : GetProductById(r)
    \/ \E r \in Reqs : Finish(r)

StartupSpec == StartupInit /\ [][StartupNext]_vars

\* ---------------------------------------------------------------------
\* Updates objects: one key each, and all keys at once.
Patches(all) == {all} \cup {Only(k, all[k]) : k \in DOMAIN all}

UserPatches ==
    Patches([id |-> UserIdOf(0), email |-> "z@x.com", password |-> "Wxyz5678",
             createdAt |-> T1, firstName |-> "Ann"])
    \cup {Only("password", "")}

ProductPatches ==
    Patches([id |-> ProductIdOf(0), userId |-> UserIdOf(2),
             pk |-> <<"PRODUCT", ProductIdOf(0)>>, sk |-> <<"DETAILS", ProductIdOf(0)>>,
             createdAt |-> T1, category |-> "c2"])

\* One registered user and one product of that user, on the key-value backend.
PatchInit ==
    /\ dbType = "dynamodb"
    /\ table = ListedTable(1)
    /\ scanOrder = <<>>
    /\ proc = Initialized
    /\ rows = NoRows
    /\ req = [r \in Reqs |-> Idle]
    /\ nextUid = 2
    /\ nextPid = 2
    /\ issued = {SignToken(UserIdOf(1))}
    /\ hist = [NoHist EXCEPT ![ProductIdOf(1)].creator = UserIdOf(1)]

PatchNext ==
    \/ \E r \in Reqs, updates \in UserPatches : UserModelUpdate(r, UserIdOf(1), updates)
    \/ \E r \in Reqs, updates \in ProductPatches, userId \in UserIds :
          ProductModelUpdate(r, ProductIdOf(1), updates, userId)
    \/ \E r \in Reqs : UserFindByIdStep(r)
    \/ \E r \in Reqs : UpdateProfileWrite(r)
    \/ \E r \in Reqs : UpdateProductFind(r)
    \/ \E r \in Reqs : UpdateProductCategory(r)
    \/ \E r \in Reqs : UpdateProductPrimary(r)
    \/ \E r \in Reqs : Finish(r)

\* Calls of UserModel.update and ProductModel.update with any updates object.
PatchSpec == PatchInit /\ [][PatchNext]_vars

\* ---------------------------------------------------------------------
\* One registered user on the key-value backend; request bodies with and without
\* their required members.
InputInit ==
    /\ dbType = "dynamodb"
    /\ table = ListedTable(0)
    /\ scanOrder = <<>>
    /\ proc = Initialized
    /\ rows = NoRows
    /\ req = [r \in Reqs |-> Idle]
    /\ nextUid = 2
    /\ nextPid = 1
    /\ issued = {SignToken(UserIdOf(1))}
    /\ hist = NoHist

InputNext ==
    \/ \E r \in Reqs, email \in {"b@x.com", Undef}, password \in Passwords \cup {Undef} :
          RegisterArrive(r, email, password)
    \/ \E r \in Reqs : RegisterFindByEmail(r)
    \/ \E r \in Reqs : RegisterCreate(r)
    \/ \E r \in Reqs, email \in {"a@x.com", Undef}, password \in Passwords \cup {Undef} :
          LoginArrive(r, email, password)
    \/ \E r \in Reqs : LoginQuery(r)
    \/ \E r \in Reqs : LoginGet(r)
    \/ \E r \in Reqs : LoginUpdateLastLogin(r)
    \/ \E r \in Reqs, tok \in issued, name \in {"Widget", Undef, ""},
          price \in {"9.99", Undef} :
          CreateProductArrive(r, tok, name, price, Undef)
    \/ \E r \in Reqs : UserFindByIdStep(r)
    \/ \E r \in Reqs : CreateProduct(r)
    \/ \E r \in Reqs : Finish(r)

\* Register, login and product create requests, well-formed and not.
InputSpec == InputInit /\ [][InputNext]_vars

\* ---------------------------------------------------------------------
\* Updates objects with a password, with an empty one, with none, and with every
\* key.
PasswordPatches ==
    {u \in UserPatches : DOMAIN u \in {{"password"}, {"firstName"}} \/ "id" \in DOMAIN u}

PasswordNext ==
    \/ \E r \in Reqs, password \in Passwords : RegisterArrive(r, "b@x.com", password)
    \/ \E r \in Reqs : RegisterFindByEmail(r)
    \/ \E r \in Reqs : RegisterCreate(r)
    \/ \E r \in Reqs, userId \in UserIds, updates \in PasswordPatches :
          UserModelUpdate(r, userId, updates)
    \/ \E r \in Reqs : UserFindByIdStep(r)
    \/ \E r \in Reqs : UpdateProfileWrite(r)
    \/ \E r \in Reqs : Finish(r)

\* A registration, and calls of UserModel.update, from one registered user on.
PasswordSpec == InputInit /\ [][PasswordNext]_vars

\* ---------------------------------------------------------------------
\* One registered user whose isActive flag UserModel.update sets, and that user's
\* requests to every bearer-protected route.
ActiveNext ==
    \/ \E r \in Reqs, active \in BOOLEAN :
          UserModelUpdate(r, UserIdOf(1), Only("isActive", active))
    \/ \E r \in Reqs, tok \in issued : CreateProductArrive(r, tok, "Widget", "9.99", "c1")
    \/ \E r \in Reqs, tok \in issued, productId \in ProductIds :
          UpdateProductArrive(r, tok, productId, "c2")
    \/ \E r \in Reqs, tok \in issued, productId \in ProductIds :
          DeleteProductArrive(r, tok, productId)
    \/ \E r \in Reqs, tok \in issued, opname \in UploadOps : UploadArrive(r, tok, opname)
    \/ \E r \in Reqs, tok \in issued : GetProfileArrive(r, tok)
    \/ \E r \in Reqs, tok \in issued : UpdateProfileArrive(r, tok, "Ann", Undef)
    \/ \E r \in Reqs, tok \in issued : GetProductsByUserArrive(r, tok)
    \/ \E r \in Reqs : UserFindByIdStep(r)
    \/ \E r \in Reqs : UpdateProfileWrite(r)
    \/ \E r \in Reqs : CreateProduct(r)
    \/ \E r \in Reqs : UpdateProductFind(r)
    \/ \E r \in Reqs : UpdateProductCategory(r)
    \/ \E r \in Reqs : UpdateProductPrimary(r)
    \/ \E r \in Reqs : DeleteProductFind(r)
    \/ \E r \in Reqs : DeleteProductWrite(r)
    \/ \E r \in Reqs, ok \in BOOLEAN : UploadS3(r, ok)
    \/ \E r \in Reqs : FindQuery(r)
    \/ \E r \in Reqs : FindResolve(r)
    \/ \E r \in Reqs : Finish(r)

ActiveSpec == InputInit /\ [][ActiveNext]_vars

\* ---------------------------------------------------------------------
\* The running server, its limiter's table of counts empty.
RateInit ==
    /\ dbType \in ValidTypes
    /\ table = {}
    /\ scanOrder = <<>>
    /\ proc = Initialized
    /\ rows = NoRows
    /\ req = [r \in Reqs |-> Idle]
    /\ nextUid = 1
    /\ nextPid = 1
    /\ issued = {}
    /\ hist = NoHist

RateNext ==
    \/ \E r \in Reqs, ip \in Ips : LimitedRootArrive(r, ip)
    \/ TimerReset
    \/ \E r \in Reqs : Finish(r)

\* Requests of two addresses through the rate limiter, and its timer.
RateSpec == RateInit /\ [][RateNext]_vars

\* ================================================================ claims
UserPrimaries(tbl) == {it \in tbl : it.pk[1] = "USER" /\ it.sk[1] = "PROFILE"}
DoneReq(r, opname) == req[r].op = opname /\ req[r].pc = "done"

\* C1: two registrations with the same email that were in flight together end with
\* exactly one 201 and one 409, and at most one user primary record holds the email.
C1_ConcurrentRegistration ==
    \A r1, r2 \in Reqs :
        ( /\ r1 # r2
          /\ DoneReq(r1, "register") /\ DoneReq(r2, "register")
          /\ req[r1].overlap /\ req[r2].overlap
          /\ ~Falsy(req[r1].arg.email)
          /\ req[r1].arg.email = req[r2].arg.email )
        => /\ {req[r1].status, req[r2].status} = {201, 409}
           /\ Cardinality({u \in UserPrimaries(table) : u.email = req[r1].arg.email}) <= 1

\* C5: no user object returned by the key-value User adapter or placed in a
\* response carries a password attribute.
NoPassword(x) == "password" \notin DOMAIN x
C5_NoPasswordReturned ==
    \A r \in Reqs :
        /\ NoPassword(req[r].user)
        /\ "user" \in DOMAIN req[r].loc => NoPassword(req[r].loc.user)
        /\ "user" \in DOMAIN req[r].body => NoPassword(req[r].body.user)

\* A profile update has answered with the updated user while the stored record
\* holds the hash of the new password.
C5_Witness ==
    \E r \in Reqs :
        /\ DoneReq(r, "updateProfile") /\ req[r].status = 200
        /\ "password" \in DOMAIN req[r].arg.updates
        /\ \E u \in UserPrimaries(table) :
              u.id = req[r].body.user.id /\ u.password = Hash(req[r].arg.updates.password)

\* C10: a registration that arrives when a user with its email exists is answered
\* 409 and writes nothing.
C10_DuplicateRejected ==
    \A r \in Reqs :
        (DoneReq(r, "register") /\ req[r].taken)
        => (req[r].status = 409 /\ req[r].writes = 0)

\* C11: a valid registration whose email no user held and no registration in
\* flight with it used is answered 201 without a password, and the user it created
\* is then found by findById, by findByEmail and by validateCredentials with the
\* registered password, each without a password.
C11_RegisteredRetrievable ==
    \A r \in Reqs :
        ( /\ DoneReq(r, "register") /\ ~Falsy(req[r].arg.email)
          /\ ~req[r].taken /\ ~req[r].overlap )
        => /\ req[r].status = 201
           /\ NoPassword(req[r].body.user)
           /\ LET id == req[r].body.user.id
                  byId == UserFindById(table, id)
                  byEmail == UserFindByEmail(table, req[r].arg.email)
                  byLogin == ValidateCredentials(table, req[r].arg.email,
                                                 req[r].arg.password)
              IN  /\ byId # Null /\ NoPassword(byId)
                  /\ byEmail # Null /\ byEmail.id = id /\ NoPassword(byEmail)
                  /\ byLogin # Null /\ byLogin.id = id /\ NoPassword(byLogin)

\* -------------------------------------------------------- product claims
ProductPrimary(tbl, p) == DbGet(tbl, <<"PRODUCT", p>>, <<"DETAILS", p>>)
CategoryIndexes(tbl, p) ==
    {it \in tbl : it.pk[1] = "CATEGORY" /\ it.sk = <<"PRODUCT", p>>}
OwnerIndexes(tbl, p) ==
    {it \in tbl : it.pk[1] = "USER" /\ it.sk = <<"PRODUCT", p>>}
Returned(products) == {products[i].id : i \in 1..Len(products)}

\* C2: of an existing product, a category index record exists exactly under the
\* category the primary record holds, in every state.
C2_CategoryIndexAtomic ==
    \A p \in ProductIds : \A prim \in ProductPrimary(table, p) :
        /\ \A idx \in CategoryIndexes(table, p) : idx.pk[2] = Attr(prim, "category")
        /\ ~Falsy(Attr(prim, "category")) => CategoryIndexes(table, p) # {}

\* The only request ever to name product p after its creation with category c is
\* the update r of its owner, to another category, which has answered 200.
OnlyUpdateDone(r, p) ==
    /\ dbType = "dynamodb"
    /\ DoneReq(r, "updateProduct") /\ req[r].status = 200
    /\ req[r].arg.productId = p
    /\ hist[p].touched = 1
    /\ req[r].user.id = hist[p].creator
    /\ Attr(req[r].arg.updates, "category") \in Categories
    /\ req[r].loc.product.category \in Categories
    /\ req[r].loc.product.category # req[r].arg.updates.category

\* C3: after the owner's update of a product from category C to C2, and nothing
\* else on that product, no CATEGORY#C index record of it remains, findByCategory(C)
\* does not return it and findByCategory(C2) does.
C3_CategoryMigrates ==
    \A r \in Reqs, p \in ProductIds :
        OnlyUpdateDone(r, p)
        => LET c == req[r].loc.product.category
               c2 == req[r].arg.updates.category
           IN  /\ DbGet(table, <<"CATEGORY", c>>, <<"PRODUCT", p>>) = {}
               /\ p \notin Returned(FindByCategory(table, c))
               /\ p \in Returned(FindByCategory(table, c2))

C3_Witness == \E r \in Reqs, p \in ProductIds : OnlyUpdateDone(r, p)

\* C4: in every state a product is in all of its lookups' records or in none: the
\* primary record, the owner index record and, when a category is set, a category
\* index record.
C4_DeleteAtomic ==
    \A p \in ProductIds :
        LET prim == ProductPrimary(table, p) # {}
            byOwner == OwnerIndexes(table, p) # {}
            byCategory == CategoryIndexes(table, p) # {}
        IN  /\ prim <=> byOwner
            /\ byCategory => prim
            /\ (\E it \in ProductPrimary(table, p) : ~Falsy(Attr(it, "category")))
                  => byCategory

\* The product an update or delete request finds, on the backend in use.
Stored(p) == IF dbType = "rds" THEN RdsFindByPk(p) ELSE ProductFindById(table, p)
FindSteps == {"update.findById", "delete.findById",
              "rds.update.findByPk", "rds.delete.findByPk"}
Mutating(q) == q.op \in {"updateProduct", "deleteProduct"}

\* C6: the step of update and delete that reads the product answers 403 when the
\* product exists and is not the caller's, and 404 only when it does not exist;
\* no other step of theirs answers 403 or 404.
C6_ForbiddenNotHidden ==
    [][\A r \in Reqs :
         (Mutating(req[r]) /\ req[r].status = 0 /\ req'[r].status # 0)
         => LET product == Stored(req[r].arg.productId)
            IN  /\ req[r].pc \in FindSteps
                   => /\ (product # Null /\ Attr(product, "userId") # req[r].user.id)
                          => req'[r].status = 403
                      /\ req'[r].status = 404 => product = Null
                /\ req'[r].status \in {403, 404} => req[r].pc \in FindSteps]_vars

\* A non-owner's update of an existing product has been answered 403.
C6_Witness ==
    \E r \in Reqs :
        /\ DoneReq(r, "updateProduct") /\ req[r].status = 403
        /\ Stored(req[r].arg.productId) # Null
        /\ hist[req[r].arg.productId].creator # req[r].user.id

\* C7: the step in which update or delete fails with not-found or unauthorized
\* changes no record, and the call has written nothing before it.
C7_FailsBeforeWrite ==
    [][\A r \in Reqs :
         (Mutating(req[r]) /\ req[r].status = 0 /\ req'[r].status \in {403, 404})
         => (table' = table /\ rows' = rows /\ req'[r].writes = 0)]_vars

\* A non-owner's delete of an existing product has been answered 403.
C7_Witness ==
    \E r \in Reqs :
        /\ DoneReq(r, "deleteProduct") /\ req[r].status = 403
        /\ dbType = "dynamodb"
        /\ ProductPrimary(table, req[r].arg.productId) # {}

\* C8: every product primary record has a userId, the id of an existing user.
C8_OwnerExists ==
    /\ \A it \in table :
          (it.pk[1] = "PRODUCT" /\ it.sk[1] = "DETAILS")
          => \E u \in UserPrimaries(table) : u.id = Attr(it, "userId")
    /\ \A p \in rows.Products : \E u \in rows.Users : u.id = p.userId

\* C12: every item of the transaction ProductModel.create is about to issue is a
\* put guarded by the must-not-already-exist condition, the category index item
\* included.
C12_CreateGuarded ==
    \A r \in Reqs :
        (req[r].op = "createProduct" /\ req[r].pc = "create")
        => LET tx == ProductCreateTx(ProductIdOf(nextPid), ProductData(req[r].arg),
                                     req[r].user.id)
           IN  \A i \in 1..Len(tx) : tx[i].kind = "Put" /\ tx[i].cond

\* C13: when an update or delete of a product that no other request has named
\* ends in a failed storage write, the records of the product are those the
\* operation found when it started: the primary record it read, the owner index
\* record and the category index record of the category read.
C13_FailureLeavesNothing ==
    \A r \in Reqs :
        ( /\ dbType = "dynamodb" /\ Mutating(req[r])
          /\ req[r].pc = "done" /\ req[r].status = 500
          /\ hist[req[r].arg.productId].touched = 1 )
        => LET p == req[r].arg.productId
               before == req[r].loc.product
           IN  {it \in table : it.pk = <<"PRODUCT", p>> \/ it.sk = <<"PRODUCT", p>>}
               = {before, UserIndexItem(before.userId, p)}
                 \cup (IF Falsy(before.category) THEN {}
                       ELSE {CategoryItem(before.category, p)})

\* The attributes every product has from its creation on.
ProductFields == {"id", "name", "price", "userId", "createdAt"}
Listing(q) == q.op \in {"getProductsByUser", "getProductsByCategory"}
Listed(q) ==
    IF "products" \in DOMAIN q.body THEN q.body.products
    ELSE IF "products" \in DOMAIN q.loc THEN q.loc.products
    ELSE <<>>

\* The turn of the loop of findByUserId / findByCategory that meets an index
\* record whose primary record is missing adds nothing to the result.
DanglingSkipped ==
    [][\A r \in Reqs :
         ( /\ req[r].pc = "resolve"
           /\ ProductFindById(table, Head(req[r].loc.todo)) = Null )
         => Listed(req'[r]) = req[r].loc.products]_vars

\* C14: every object findByUserId or findByCategory has collected or returned is
\* a whole product: it has the attributes of a product, none is a partial record.
C14_NoPartialObject ==
    \A r \in Reqs :
        Listing(req[r])
        => \A i \in 1..Len(Listed(req[r])) :
              ProductFields \subseteq DOMAIN Listed(req[r])[i]

\* A getAllProducts request that has answered with a page.
PageDone(r) == DoneReq(r, "getAllProducts") /\ req[r].status = 200
PageCursor(r) == req[r].body.pagination.lastEvaluatedKey
PagePos(cursor) == ScanPos(ScanSeq(table, scanOrder), DecodeCursor(cursor))

C16_FailsFast ==
    dbType \notin ValidTypes
    => /\ proc.phase \in {"loading", "exited"}
       /\ \A r \in Reqs : req[r] = Idle

\* The process has exited on an unknown type.
C16_Witness == dbType \notin ValidTypes /\ proc.phase = "exited"

\* C17: the product a create request is about to get back has the same field
\* names from the key-value adapter as from the relational one.
C17_SameEntityShape ==
    \A r \in Reqs :
        (req[r].op = "createProduct" /\ req[r].pc \in {"create", "rds.create"})
        => DOMAIN ProductItem(ProductIdOf(nextPid), ProductData(req[r].arg), req[r].user.id)
           = DOMAIN RdsProductRow(ProductIdOf(nextPid), req[r].arg, req[r].user.id)

\* The header is absent or not a Bearer one, or its token is expired, not signed
\* with the secret, without a user id, or names a user that does not exist.
UserExists(id) ==
    \/ UserFindById(table, id) # Null
    \/ \E u \in rows.Users : u.id = id
Unauthenticated(header) ==
    \/ header.scheme # "Bearer"
    \/ header.token.expired
    \/ header.token.key # JwtSecret
    \/ Falsy(header.token.id)
    \/ ~UserExists(header.token.id)

\* C18: every step of a request to a protected route whose header carries no
\* usable token either answers 401 or is authenticate's read of the user; it
\* leaves every stored record as it is, and the request never gets a user, never
\* reaches its handler and writes nothing.
C18_Unauthenticated401 ==
    [][\A r \in Reqs :
         ( /\ req'[r] # req[r]
           /\ "header" \in DOMAIN req'[r].arg
           /\ Unauthenticated(req'[r].arg.header) )
         => /\ table' = table /\ rows' = rows
            /\ req'[r].user = Null /\ req'[r].writes = 0
            /\ \/ req'[r].pc = "done" /\ req'[r].status = 401
               \/ req[r].pc = "idle" /\ req'[r].pc \in {"findById", "findByPk"}]_vars

\* A delete of an existing product, sent with a well-signed token of a user that
\* does not exist, has been answered 401.
C18_Witness ==
    \E r \in Reqs :
        /\ DoneReq(r, "deleteProduct") /\ req[r].status = 401
        /\ "header" \in DOMAIN req[r].arg
        /\ req[r].arg.header = Bearer(SignToken(UserIdOf(0)))
        /\ Stored(req[r].arg.productId) # Null

\* The item of the table that has the key of this one, after the step.
Same(item, after) == after.pk = item.pk /\ after.sk = item.sk
Kept(item, after, names) == \A k \in names : Attr(after, k) = Attr(item, k)

\* C19: no step changes the id, email or createdAt of a stored user, or the id,
\* userId or createdAt of a stored product, or the key of either; a step changes
\* a stored password only as the write of an update whose updates object has a
\* password, to the hash of that password.
C19_ProtectedFieldsKept ==
    [][\A item \in table : \A after \in table' :
         Same(item, after)
         => /\ (item.pk[1] = "USER" /\ item.sk[1] = "PROFILE")
                => /\ Kept(item, after, {"id", "email", "createdAt"})
                   /\ after.password # item.password
                      => \E r \in Reqs :
                            /\ req[r].pc = "update.write"
                            /\ ~Falsy(Attr(req[r].arg.updates, "password"))
                            /\ after.password = Hash(req[r].arg.updates.password)
            /\ (item.pk[1] = "PRODUCT" /\ item.sk[1] = "DETAILS")
                => Kept(item, after, {"id", "userId", "createdAt"})]_vars

\* C20: since the last timer reset at most 100 requests of an address have been
\* passed on; a request of an address that has had its 100 is answered 429 and
\* not passed on, a request of an address that has not is passed on, and the
\* reset lets every address start again from none.
C20_FixedWindow ==
    [][/\ \A ip \in Ips : proc'.admitted[ip] <= MaxRequests
       /\ \A r \in Reqs :
             (req[r].pc = "idle" /\ req'[r].op = "root")
             => LET ip == req'[r].arg.ip
                IN  IF proc.admitted[ip] >= MaxRequests
                    THEN req'[r].status = 429 /\ proc'.admitted = proc.admitted
                    ELSE /\ req'[r].status = 200
                         /\ proc'.admitted = [proc.admitted EXCEPT ![ip] = @ + 1]
       /\ (\A r \in Reqs : req'[r] = req[r]) /\ proc' # proc
             => \A ip \in Ips : proc'.admitted[ip] = 0]_vars

\* An address was refused in one window and has been passed on in the next, while
\* the other address has had nothing refused.
C20_Witness ==
    \E r, o \in Reqs : \E ip \in Ips :
        /\ DoneReq(r, "root") /\ req[r].status = 429 /\ req[r].arg.ip = ip
        /\ DoneReq(o, "root") /\ req[o].status = 200 /\ req[o].arg.ip = ip
        /\ proc.admitted[ip] = 1
        /\ \A other \in Ips \ {ip} : proc.requestCounts[other] <= MaxRequests

\* The body of the request lacks a member its handler requires.
MissingInput(q) ==
    \/ q.op \in {"register", "login"} /\ (Falsy(q.arg.email) \/ Falsy(q.arg.password))
    \/ q.op = "createProduct" /\ (Falsy(q.arg.name) \/ Falsy(q.arg.price))

\* C21 as stated: the only step of a request with missing required input is its
\* arrival, which answers 400; no storage call is made for it.
C21_NoStorageCall ==
    [][\A r \in Reqs :
         (req'[r] # req[r] /\ MissingInput(req'[r]))
         => /\ req[r].pc = "idle"
            /\ req'[r].pc = "done" /\ req'[r].status = 400
            /\ table' = table /\ rows' = rows]_vars

\* C21: a register or login with missing required input is answered 400 on
\* arrival, with no storage call; a product create with missing required input
\* makes one storage call, authenticate's read of the caller, and is answered by
\* the step of that read, 400 when the caller is an active user; none writes.
C21_MissingInput400 ==
    [][\A r \in Reqs :
         (req'[r] # req[r] /\ MissingInput(req'[r]))
         => /\ table' = table /\ rows' = rows /\ req'[r].writes = 0
            /\ IF req'[r].op = "createProduct"
               THEN \/ req[r].pc = "idle" /\ req'[r].pc = "findById"
                    \/ /\ req[r].pc = "findById" /\ req'[r].pc = "done"
                       /\ LET user == UserFindById(table, req[r].loc.id)
                          IN  req'[r].status = IF user = Null THEN 401
                                               ELSE IF ~user.isActive THEN 403
                                               ELSE 400
               ELSE /\ req[r].pc = "idle"
                    /\ req'[r].pc = "done" /\ req'[r].status = 400]_vars

\* A product create without a name and a register without a password have been
\* answered 400.
C21_Witness ==
    \E r, o \in Reqs :
        /\ DoneReq(r, "createProduct") /\ req[r].status = 400
        /\ Falsy(req[r].arg.name) /\ req[r].user # Null
        /\ DoneReq(o, "register") /\ req[o].status = 400 /\ Falsy(req[o].arg.password)

\* The passwords callers supply: at registration, and in an update.
Supplied == Passwords \cup {"Wxyz5678"}

\* C22: every stored user primary record has a password, the hash of a password
\* a caller supplied and not a supplied password itself.
C22_PasswordHashed ==
    \A u \in UserPrimaries(table) :
        /\ "password" \in DOMAIN u
        /\ \E pw \in Supplied : u.password = Hash(pw)
        /\ u.password \notin Supplied

\* An update with a password key has stored the hash of its password for a user
\* that a registration created, and an update with no password has been applied
\* to a stored user as well.
C22_Witness ==
    \E r, o \in Reqs :
        /\ DoneReq(r, "updateProfile") /\ req[r].status = 200
        /\ ~Falsy(Attr(req[r].arg.updates, "password"))
        /\ req[r].user.id = UserIdOf(2)
        /\ \E u \in UserPrimaries(table) :
              u.id = UserIdOf(2) /\ u.password = Hash(req[r].arg.updates.password)
        /\ DoneReq(o, "updateProfile") /\ req[o].status = 200
        /\ Falsy(Attr(req[o].arg.updates, "password"))

\* The only request ever to name product p after its creation with category c is
\* the update r of its owner, to no category, which has answered 200.
OnlyRemovalDone(r, p) ==
    /\ dbType = "dynamodb"
    /\ DoneReq(r, "updateProduct") /\ req[r].status = 200
    /\ req[r].arg.productId = p
    /\ hist[p].touched = 1
    /\ req[r].user.id = hist[p].creator
    /\ "category" \in DOMAIN req[r].arg.updates
    /\ Falsy(req[r].arg.updates.category)
    /\ req[r].loc.product.category \in Categories

\* C23: after the owner's update of a product of category C to no category, and
\* nothing else on that product, no CATEGORY#C index record of it remains and
\* findByCategory(C) does not return it.
C23_CategoryRemoved ==
    \A r \in Reqs, p \in ProductIds :
        OnlyRemovalDone(r, p)
        => LET c == req[r].loc.product.category
           IN  /\ DbGet(table, <<"CATEGORY", c>>, <<"PRODUCT", p>>) = {}
               /\ p \notin Returned(FindByCategory(table, c))

\* r is a completed update of product p by its owner that changes the category,
\* and it read the product as it was created.
CategoryUpdateDone(r, p) ==
    /\ dbType = "dynamodb"
    /\ DoneReq(r, "updateProduct") /\ req[r].status = 200
    /\ req[r].arg.productId = p
    /\ req[r].user.id = hist[p].creator
    /\ Attr(req[r].arg.updates, "category") \in Categories
    /\ req[r].loc.product.updatedAt = T0
    /\ req[r].loc.product.category # req[r].arg.updates.category

\* C24: once two updates of a product by its owner to two different categories,
\* each of which read the product before the other wrote, have both completed,
\* exactly one category index record of the product exists, under the category
\* of the primary record.
C24_ConcurrentCategoryUpdates ==
    \A r1, r2 \in Reqs, p \in ProductIds :
        ( /\ r1 # r2
          /\ CategoryUpdateDone(r1, p) /\ CategoryUpdateDone(r2, p)
          /\ req[r1].arg.updates.category # req[r2].arg.updates.category )
        => /\ Cardinality(CategoryIndexes(table, p)) = 1
           /\ \A prim \in ProductPrimary(table, p) :
                 \A idx \in CategoryIndexes(table, p) : idx.pk[2] = Attr(prim, "category")

\* The records of product p: its primary and index items, and its row.
RecordsOf(tbl, rws, p) ==
    {it \in tbl : it.pk = <<"PRODUCT", p>> \/ it.sk = <<"PRODUCT", p>>}
    \cup {x \in rws.Products : x.id = p}

\* C25: while the successful answer of a delete of product p stands, findById(p)
\* finds nothing and no primary, index record or row of p exists, whatever other
\* request on p was in flight when the delete ran.
C25_DeletedStaysDeleted ==
    \A r \in Reqs :
        (DoneReq(r, "deleteProduct") /\ req[r].status = 200)
        => /\ Stored(req[r].arg.productId) = Null
           /\ RecordsOf(table, rows, req[r].arg.productId) = {}

\* C26: a request that calls the key-value product adapter once initializeDatabase
\* has completed runs on the initialized client, and is not failed for want of a
\* handle, whether or not an earlier request loaded the adapter module before.
C26_HandleBoundOnce ==
    [][\A r \in Reqs :
         ( /\ proc.phase = "ready"
           /\ req[r].pc = "idle" /\ req'[r].op = "getProductById" )
         => (proc'.handle = "client" /\ req'[r].pc = "get")]_vars

ProductPrimaries(tbl) == {it \in tbl : it.pk[1] = "PRODUCT" /\ it.sk[1] = "DETAILS"}

\* A page answered to a caller who follows the cursors, and the products of the
\* walk up to and with this page.
WalkPage(r) == PageDone(r) /\ "walked" \in DOMAIN req[r].arg
WalkedAll(r) == req[r].arg.walked \o req[r].body.products

\* C27: on a table that is not written, every page of a walk from no cursor along
\* the returned cursors has at most limit products, hasMore exactly with a cursor,
\* and a cursor further on than the one it was asked with; the products of the
\* walk are product primary records, each once; and when a page comes without a
\* cursor the walk has returned every product primary record.
C27_WalkComplete ==
    \A r \in Reqs :
        WalkPage(r)
        => LET all == WalkedAll(r)
           IN  /\ Len(req[r].body.products) <= req[r].arg.limit
               /\ req[r].body.pagination.hasMore <=> PageCursor(r) # Null
               /\ \A i \in 1..Len(all) : all[i] \in ProductPrimaries(table)
               /\ \A i, j \in 1..Len(all) : all[i] = all[j] => i = j
               /\ PageCursor(r) # Null
                    => PagePos(PageCursor(r)) >
                         (IF req[r].arg.lastKey = Null THEN 0 ELSE PagePos(req[r].arg.lastKey))
               /\ PageCursor(r) = Null
                    => {all[i] : i \in 1..Len(all)} = ProductPrimaries(table)

\* A walk with limit 1 has ended with all the products of the table, and a page
\* of a walk has come with no product and a cursor.
C27_Witness ==
    \E r, o \in Reqs :
        /\ WalkPage(r) /\ PageCursor(r) = Null /\ req[r].arg.limit = 1
        /\ Len(WalkedAll(r)) = MaxListed
        /\ WalkPage(o) /\ req[o].body.products = <<>> /\ req[o].body.pagination.hasMore

\* The stored profile of the user a login has looked up.
LoginProfile(q) == UserFindByIdWithPassword(table, q.loc.id)

ActiveOnlyOps == {"createProduct", "updateProduct", "deleteProduct"} \cup UploadOps
AnyAccountOps == {"getProfile", "updateProfile", "getProductsByUser"}
Inactive(user) == user # Null /\ "isActive" \in DOMAIN user /\ ~user.isActive

C9_OnlyOwnerMutates ==
    [][\A p \in ProductIds :
         RecordsOf(table', rows', p) # RecordsOf(table, rows, p)
         => \E r \in Reqs :
               /\ req'[r] # req[r]
               /\ req[r].op \in {"createProduct", "updateProduct", "deleteProduct"}
               /\ req[r].user # Null
               /\ SignToken(req[r].user.id) \in issued
               /\ req[r].user.id = hist'[p].creator]_vars

\* The owner's update has changed the product while the other user's request on
\* the same product was refused.
C9_Witness ==
    \E r, o \in Reqs :
        /\ DoneReq(r, "updateProduct") /\ req[r].status = 200 /\ req[r].writes > 0
        /\ req[r].user.id = hist[req[r].arg.productId].creator
        /\ Mutating(req[o]) /\ req[o].status = 403
        /\ req[o].arg.productId = req[r].arg.productId

====
